---- MODULE Spec2Model ----
(***************************************************************************)
(* Model of the stock-data-service ingestion pipeline of jnet-site:        *)
(* StockDataDownloader (services/download.py), WeeklyAggregator,           *)
(* CatalogManager, the calculator's history gate and the cache keys.       *)
(*                                                                         *)
(* Conventions                                                             *)
(*   - a date is a day number; day 0 is a Monday, weekday(d) = d % 7       *)
(*   - a stored price is an integer number of cents (the code rounds every *)
(*     price to 2 decimals); a provider price is an integer number of      *)
(*     tenths of a cent, so that rounding is a real conversion             *)
(*   - a Python dict is a sequence of entries with distinct keys, in       *)
(*     insertion order                                                     *)
(***************************************************************************)
EXTENDS Integers, Sequences, FiniteSets, TLC

VARIABLES
    mE,        \* merge harness: the existing series handed to _merge_price_data
    mI,        \* merge harness: the incoming series
    m1,        \* merge harness: result of merge(E, I), or NoResult
    m2,        \* merge harness: result of merge(M, I), or NoResult
    aggr,      \* aggregator harness: the daily bars handed to aggregate_to_weekly
               \* and what it returned, for the list and for its bars in date order
    pwb,       \* boundaries harness: the range handed to
               \* get_partial_week_boundaries and the windows it returned
    ind,       \* indicator harness: the series and identifiers handed to
               \* calculate_for_data and what it returned
    daily,     \* blob store: symbol -> daily file or NoFile
    weekly,    \* blob store: symbol -> weekly file or NoFile
    catalog,   \* blob store: the catalog blob, a sequence of symbol summaries
    cache,     \* cache: key -> entry or NoEntry
    svc,       \* the SimpleCache object: its enabled flag and whether it has a client
    last,      \* the last handler run: operation, symbol, outcome, event log
    runs,      \* concurrent pipeline runs: symbol -> position and locals
    calls      \* number of handler calls made so far

vars ==
    <<mE, mI, m1, m2, aggr, pwb, ind, daily, weekly, catalog, cache, svc, last, runs, calls>>

mergeVars == <<mE, mI, m1, m2>>
weekVars == <<aggr, pwb, ind>>
storeVars == <<daily, weekly, catalog, cache>>
pipeVars == <<daily, weekly, catalog, cache, svc, last, runs, calls>>

(***************************************************************************)
(* Bounds                                                                  *)
(***************************************************************************)
MaxLen == 2         \* longest series handed to the merge harness
MaxRows == 2        \* most rows in one incremental provider response
MaxCalls == 2       \* most handler calls in one behaviour of the pipeline

NoResult == [none |-> TRUE]
NoFile == [nofile |-> TRUE]
NoEntry == [noentry |-> TRUE]
Null == [null |-> TRUE]     \* a null indicator value

(***************************************************************************)
(* Generic helpers                                                         *)
(***************************************************************************)
Abs(x) == IF x < 0 THEN 0 - x ELSE x
Max2(a, b) == IF a >= b THEN a ELSE b
Min2(a, b) == IF a <= b THEN a ELSE b

SeqsUpTo(S, n) == UNION {[1..k -> S] : k \in 0..n}

Dates(seq) == {seq[i].date : i \in DOMAIN seq}

DateUnique(seq) == \A i, j \in DOMAIN seq : seq[i].date = seq[j].date => i = j

StrictlyIncreasing(seq) ==
    \A i \in DOMAIN seq : i > 1 => seq[i - 1].date < seq[i].date

\* Python's sorted(xs, key=lambda x: x.date): a stable insertion sort.
RECURSIVE InsertByDate(_, _)
InsertByDate(sorted, x) ==
    IF sorted = <<>> THEN <<x>>
    ELSE IF sorted[Len(sorted)].date <= x.date THEN Append(sorted, x)
    ELSE Append(InsertByDate(SubSeq(sorted, 1, Len(sorted) - 1), x),
                sorted[Len(sorted)])

RECURSIVE SortFrom(_, _, _)
SortFrom(seq, i, acc) ==
    IF i > Len(seq) THEN acc
    ELSE SortFrom(seq, i + 1, InsertByDate(acc, seq[i]))

\* A plausible slip: the list is returned in dict insertion order.
Unsorted(seq) == seq

SortedByDate(seq) == SortFrom(seq, 1, <<>>)

(***************************************************************************)
(* StockDataPoint                                                          *)
(***************************************************************************)
Bar(d, o, h, l, c, v) ==
    [date |-> d, open |-> o, high |-> h, low |-> l, close |-> c,
     adj_close |-> c, volume |-> v]

(***************************************************************************)
(* StockDataDownloader._is_significantly_different                         *)
(*   close_diff  = |p1.close - p2.close| / p1.close         > 0.01         *)
(*   volume_diff = |p1.volume - p2.volume| / max(p1.volume, 1) > 0.1       *)
(* The closes are doubles. Away from the threshold the double quotient     *)
(* compares like the exact ratio; where the exact ratio is 0.01 the        *)
(* rounding of the subtraction decides: |7.00 - 7.07| / 7.00 evaluates to  *)
(* 0.01000000000000004, above the literal 0.01, while                      *)
(* |100.00 - 101.00| / 100.00 evaluates to 0.01 exactly. The volumes are   *)
(* ints and their quotient is exact at the threshold.                      *)
(***************************************************************************)
\* the pairs (p1.close, p2.close) of the model's bars, in cents, whose exact
\* ratio is 0.01 and whose double quotient evaluates above 0.01
CloseQuotientAbove == {<<700, 707>>, <<700, 693>>}

\* A plausible slip: only the close is compared
IsSignificantlyDifferentCloseOnly(point1, point2) ==
    \/ Abs(point1.close - point2.close) * 100 > point1.close
    \/ /\ Abs(point1.close - point2.close) * 100 = point1.close
       /\ <<point1.close, point2.close>> \in CloseQuotientAbove

IsSignificantlyDifferent(point1, point2) ==
    \/ Abs(point1.close - point2.close) * 100 > point1.close
    \/ /\ Abs(point1.close - point2.close) * 100 = point1.close
       /\ <<point1.close, point2.close>> \in CloseQuotientAbove
    \/ Abs(point1.volume - point2.volume) * 10 > Max2(point1.volume, 1)

(***************************************************************************)
(* dict operations used by _merge_price_data                               *)
(***************************************************************************)
DictHas(dict, d) == \E i \in DOMAIN dict : dict[i].date = d

DictGet(dict, d) == dict[CHOOSE i \in DOMAIN dict : dict[i].date = d]

\* A plausible slip: a list in place of the dict (the bar is always appended)
DictSetAppend(dict, p) == Append(dict, p)

DictSet(dict, p) ==
    IF DictHas(dict, p.date)
    THEN [i \in DOMAIN dict |-> IF dict[i].date = p.date THEN p ELSE dict[i]]
    ELSE Append(dict, p)

RECURSIVE DictFrom(_, _, _)
DictFrom(seq, i, dict) ==
    IF i > Len(seq) THEN dict
    ELSE DictFrom(seq, i + 1, DictSet(dict, seq[i]))

UpdatedWarning(d) == [kind |-> "updated", date |-> d, to |-> d, days |-> 0]
GapWarning(prev, curr) ==
    [kind |-> "gap", date |-> prev, to |-> curr, days |-> curr - prev]

\* A plausible slip: the overwrite is reported but the new bar is not stored.
MergeStepKeepOld(st, new_point) ==
    IF DictHas(st.dict, new_point.date)
    THEN IF IsSignificantlyDifferent(DictGet(st.dict, new_point.date), new_point)
         THEN [st EXCEPT !.warnings = Append(@, UpdatedWarning(new_point.date))]
         ELSE [st EXCEPT !.duplicates = @ + 1]
    ELSE [st EXCEPT !.dict = DictSet(@, new_point), !.new_points = @ + 1]

\* One iteration of the loop over new_points (download.py 570-584).
MergeStep(st, new_point) ==
    IF DictHas(st.dict, new_point.date)
    THEN IF IsSignificantlyDifferent(DictGet(st.dict, new_point.date), new_point)
         THEN [st EXCEPT !.dict = DictSet(@, new_point),
                         !.warnings = Append(@, UpdatedWarning(new_point.date))]
         ELSE [st EXCEPT !.duplicates = @ + 1]
    ELSE [st EXCEPT !.dict = DictSet(@, new_point), !.new_points = @ + 1]

RECURSIVE MergeLoop(_, _, _)
MergeLoop(new_points, i, st) ==
    IF i > Len(new_points) THEN st
    ELSE MergeLoop(new_points, i + 1, MergeStep(st, new_points[i]))

(***************************************************************************)
(* StockDataDownloader._check_for_gaps                                     *)
(***************************************************************************)
GapDays == 5        \* gaps longer than this are reported
GapScanLimit == 5   \* the scan stops once this many gaps are collected
GapReportLimit == 3 \* _merge_price_data reports gaps[:3]

RECURSIVE CheckForGapsFrom(_, _, _)
CheckForGapsFrom(data_points, i, gaps) ==
    IF i > Len(data_points) THEN gaps
    ELSE LET prev == data_points[i - 1].date
             curr == data_points[i].date
             gaps2 == IF curr - prev > GapDays
                      THEN Append(gaps, GapWarning(prev, curr))
                      ELSE gaps
         IN IF Len(gaps2) >= GapScanLimit THEN gaps2
            ELSE CheckForGapsFrom(data_points, i + 1, gaps2)

CheckForGaps(data_points) == CheckForGapsFrom(data_points, 2, <<>>)

(***************************************************************************)
(* StockDataDownloader._merge_price_data                                   *)
(***************************************************************************)
MergePriceData(existing_points, new_points) ==
    LET st0 == [dict |-> DictFrom(existing_points, 1, <<>>),
                duplicates |-> 0, new_points |-> 0, warnings |-> <<>>]
        st == MergeLoop(new_points, 1, st0)
        merged_points == SortedByDate(st.dict)
        gaps == CheckForGaps(merged_points)
        warnings == st.warnings \o SubSeq(gaps, 1, Min2(Len(gaps), GapReportLimit))
    IN [merged |-> merged_points,
        new_points |-> st.new_points,
        duplicates |-> st.duplicates,
        warnings |-> warnings,
        total_points |-> Len(merged_points)]

OverwriteWarnings(stats) ==
    {i \in DOMAIN stats.warnings : stats.warnings[i].kind = "updated"}

(***************************************************************************)
(* Provider rows and their conversion                                      *)
(* (_convert_to_stock_data, _convert_dataframe_to_points, StockDataPoint)  *)
(***************************************************************************)
\* round(x, 2) of a price given in tenths of a cent: nearest cent, ties to even
Round2(m) ==
    LET q == m \div 10
        r == m % 10
    IN IF r > 5 THEN q + 1
       ELSE IF r < 5 THEN q
       ELSE IF q % 2 = 0 THEN q ELSE q + 1

\* StockDataPoint's field constraints and validators. Fields are validated in
\* declaration order (date, open, high, low, close, adj_close, volume) and a
\* validator sees only the fields validated before it: high and low are
\* compared with open, close is not yet in info.data when they run.
ValidPoint(p) ==
    /\ p.open > 0 /\ p.high > 0 /\ p.low > 0 /\ p.close > 0 /\ p.adj_close > 0
    /\ p.volume >= 0
    /\ p.high >= p.open
    /\ p.low <= p.open

\* One iteration of the loop over df.iterrows(): "skip", "raise" or "point".
ConvertRow(row) ==
    IF row.nan THEN [kind |-> "skip"]
    ELSE IF row.open <= 0 \/ row.high <= 0 \/ row.low <= 0 \/ row.close <= 0
            \/ row.adj_close <= 0
    THEN [kind |-> "skip"]
    ELSE LET p == [date |-> row.date,
                   open |-> Round2(row.open),
                   high |-> Round2(row.high),
                   low |-> Round2(row.low),
                   close |-> Round2(row.close),
                   adj_close |-> Round2(row.adj_close),
                   volume |-> row.volume]
         IN IF ValidPoint(p) THEN [kind |-> "point", point |-> p]
            ELSE [kind |-> "raise"]

RECURSIVE ConvertRowsFrom(_, _, _)
ConvertRowsFrom(rows, i, acc) ==
    IF i > Len(rows) THEN [raised |-> FALSE, points |-> acc]
    ELSE LET c == ConvertRow(rows[i])
         IN IF c.kind = "raise" THEN [raised |-> TRUE, points |-> <<>>]
            ELSE IF c.kind = "skip" THEN ConvertRowsFrom(rows, i + 1, acc)
            ELSE ConvertRowsFrom(rows, i + 1, Append(acc, c.point))

ConvertDataframeToPoints(rows) == ConvertRowsFrom(rows, 1, <<>>)

Today == 28         \* date.today(): a Monday, the first day of the sixth week

DataRange(points) ==
    IF points # <<>>
    THEN [start |-> points[1].date, end |-> points[Len(points)].date]
    ELSE [start |-> Today, end |-> Today]

\* the handlers read and assign file.indicators (download.py 88, 418, 427), so
\* the file carries them next to the declared fields
StockDataFile(symbol, points, indicators) ==
    [symbol |-> symbol, data_type |-> "daily", data_range |-> DataRange(points),
     data_points |-> points, total_records |-> Len(points),
     indicators |-> indicators]

(***************************************************************************)
(* WeeklyAggregator                                                        *)
(***************************************************************************)
Weekday(d) == d % 7

GetWeekBoundaries(input_date) ==
    LET monday == input_date - Weekday(input_date)
    IN [week_start |-> monday, week_end |-> monday + 4]

RECURSIVE SumOver(_, _, _, _)
SumOver(seq, field, i, acc) ==
    IF i > Len(seq) THEN acc
    ELSE SumOver(seq, field, i + 1, acc + seq[i][field])

MaxTradingDays == 5     \* WeeklyDataPoint.trading_days: Field(ge=1, le=5)

\* A plausible slip: the week takes the volume of its last bar
AggregateWeekLastVolume(week_data, week_start, week_end) ==
    LET sorted_week == SortedByDate(week_data)
        n == Len(sorted_week)
        highs == {sorted_week[i].high : i \in 1..n}
        lows == {sorted_week[i].low : i \in 1..n}
    IN [week_ending |-> week_end,
        week_start |-> week_start,
        open |-> sorted_week[1].open,
        high |-> CHOOSE h \in highs : \A x \in highs : x <= h,
        low |-> CHOOSE l \in lows : \A x \in lows : l <= x,
        close |-> sorted_week[n].close,
        adj_close |-> sorted_week[n].adj_close,
        volume |-> sorted_week[n].volume,
        trading_days |-> n]

AggregateWeek(week_data, week_start, week_end) ==
    LET sorted_week == SortedByDate(week_data)
        n == Len(sorted_week)
        highs == {sorted_week[i].high : i \in 1..n}
        lows == {sorted_week[i].low : i \in 1..n}
    IN [week_ending |-> week_end,
        week_start |-> week_start,
        open |-> sorted_week[1].open,
        high |-> CHOOSE h \in highs : \A x \in highs : x <= h,
        low |-> CHOOSE l \in lows : \A x \in lows : l <= x,
        close |-> sorted_week[n].close,
        adj_close |-> sorted_week[n].adj_close,
        volume |-> SumOver(sorted_week, "volume", 1, 0),
        trading_days |-> n]

\* WeeklyDataPoint's constraints; the model raises when they do not hold
ValidWeeklyPoint(w) ==
    /\ Weekday(w.week_ending) = 4
    /\ Weekday(w.week_start) = 0
    /\ w.open > 0 /\ w.high > 0 /\ w.low > 0 /\ w.close > 0 /\ w.adj_close > 0
    /\ w.volume >= 0
    /\ w.trading_days >= 1 /\ w.trading_days <= MaxTradingDays

RECURSIVE SortedInts(_)
SortedInts(S) ==
    IF S = {} THEN <<>>
    ELSE LET m == CHOOSE x \in S : \A y \in S : x <= y
         IN <<m>> \o SortedInts(S \ {m})

AggregateToWeekly(daily_data) ==
    IF daily_data = <<>> THEN [raised |-> FALSE, points |-> <<>>]
    ELSE LET sorted_data == SortedByDate(daily_data)
             mondays == SortedInts({GetWeekBoundaries(sorted_data[i].date).week_start :
                                      i \in DOMAIN sorted_data})
             week_points(m) ==
                 SelectSeq(sorted_data,
                           LAMBDA p : GetWeekBoundaries(p.date).week_start = m)
             out == [k \in DOMAIN mondays |->
                        AggregateWeek(week_points(mondays[k]), mondays[k],
                                      mondays[k] + 4)]
         IN IF \A k \in DOMAIN out : ValidWeeklyPoint(out[k])
            THEN [raised |-> FALSE, points |-> out]
            ELSE [raised |-> TRUE, points |-> <<>>]

\* WeeklyAggregator.get_partial_week_boundaries: the loop from current_date
RECURSIVE PartialWeeksFrom(_, _, _, _)
PartialWeeksFrom(current_date, start_date, end_date, weeks) ==
    IF current_date > end_date THEN weeks
    ELSE LET wb == GetWeekBoundaries(current_date)
             adjusted_start == Max2(wb.week_start, start_date)
             adjusted_end == Min2(wb.week_end, end_date)
         IN PartialWeeksFrom(wb.week_end + 3, start_date, end_date,
                             Append(weeks, <<adjusted_start, adjusted_end>>))

GetPartialWeekBoundaries(start_date, end_date) ==
    PartialWeeksFrom(start_date, start_date, end_date, <<>>)

(***************************************************************************)
(* IndicatorCalculator                                                     *)
(***************************************************************************)
DEFAULT_INDICATORS ==
    <<"SMA_20", "SMA_50", "RSI_14", "MACD", "VOLUME_SMA_20", "ADX_14">>

INDICATOR_MIN_PERIODS ==
    [SMA_20 |-> 20, SMA_50 |-> 50, SMA_200 |-> 200, EMA_12 |-> 25,
     EMA_26 |-> 50, RSI_14 |-> 15, MACD |-> 35, BB_20 |-> 20, ADX_14 |-> 28,
     ATR_14 |-> 15, STOCH |-> 14, OBV |-> 2, CMF_20 |-> 21,
     VOLUME_SMA_20 |-> 20]

\* A plausible slip: the minimum-history check left out
MinPeriodIgnored(name) == 0

\* self.min_periods.get(indicator_name, 0)
MinPeriod(name) ==
    IF name \in DOMAIN INDICATOR_MIN_PERIODS THEN INDICATOR_MIN_PERIODS[name]
    ELSE 0

\* the date of a bar: point.date, or week_ending for a weekly bar
PointDate(point) ==
    IF "date" \in DOMAIN point THEN point.date ELSE point.week_ending

PrepareDataframe(points) ==
    SortedByDate([i \in DOMAIN points |->
                    [date |-> PointDate(points[i]),
                     open |-> points[i].open, high |-> points[i].high,
                     low |-> points[i].low, close |-> points[i].close,
                     volume |-> points[i].volume]])

RECURSIVE WindowSum(_, _, _, _)
WindowSum(df, field, from, to) ==
    IF from > to THEN 0
    ELSE df[to][field] + WindowSum(df, field, from, to - 1)

\* rolling(window, min_periods=window).mean(): null for the first window - 1
\* rows, then the mean of the trailing window, kept as sum over window
RollingMean(df, field, window, i) ==
    IF i < window THEN Null
    ELSE [sum |-> WindowSum(df, field, i - window + 1, i), over |-> window]

\* A value the numeric library computes in floating point over the whole
\* history up to row i (an exponentially weighted mean has no finite window):
\* kept as the application of the named function to the rows it reads.
Applied(fn, df, i) ==
    [fn |-> fn, args |-> [k \in 1..i |-> <<df[k].high, df[k].low, df[k].close,
                                          df[k].volume>>]]

SmaNames == {"SMA_20", "SMA_50", "SMA_200"}
SmaPeriod(name) ==
    IF name = "SMA_20" THEN 20 ELSE IF name = "SMA_50" THEN 50 ELSE 200

EmaNames == {"EMA_12", "EMA_26"}
EmaPeriod(name) == IF name = "EMA_12" THEN 12 ELSE 26

RsiWindow == 14     \* ta.momentum.RSIIndicator(df['close'], window=14)
MacdSlow == 26      \* ta.trend.MACD: window_slow=26
AdxFirst == 28      \* ADX_14: the first row the smoothed index is defined at
BandWindow == 20    \* BollingerBands and ChaikinMoneyFlow: window=20
StochWindow == 14   \* StochasticOscillator: window=14

IndicatorOutputs(name) ==
    IF name \in SmaNames THEN {"SMA"}
    ELSE IF name \in EmaNames THEN {"EMA"}
    ELSE IF name = "RSI_14" THEN {"RSI"}
    ELSE IF name = "MACD" THEN {"MACD", "signal", "histogram"}
    ELSE IF name = "BB_20" THEN {"upper", "middle", "lower"}
    ELSE IF name = "ADX_14" THEN {"ADX", "DI+", "DI-"}
    ELSE IF name = "ATR_14" THEN {"ATR"}
    ELSE IF name = "STOCH" THEN {"%K", "%D"}
    ELSE IF name = "OBV" THEN {"OBV"}
    ELSE IF name = "CMF_20" THEN {"CMF"}
    ELSE IF name = "VOLUME_SMA_20" THEN {"Volume_SMA"}
    ELSE {}

\* the first row at which the library's series of the indicator holds a value
FirstValueRow(name) ==
    IF name \in EmaNames THEN EmaPeriod(name)
    ELSE IF name = "RSI_14" THEN RsiWindow
    ELSE IF name = "MACD" THEN MacdSlow
    ELSE IF name \in {"BB_20", "CMF_20"} THEN BandWindow
    ELSE IF name = "STOCH" THEN StochWindow
    ELSE IF name = "ADX_14" THEN AdxFirst
    ELSE 1

OutputValue(df, name, output, i) ==
    IF name \in SmaNames THEN RollingMean(df, "close", SmaPeriod(name), i)
    ELSE IF name = "VOLUME_SMA_20" THEN RollingMean(df, "volume", 20, i)
    ELSE IF i < FirstValueRow(name) THEN Null ELSE Applied(output, df, i)

\* A plausible slip: only the rows that hold a value are emitted
CalculateIndicatorDropsNull(df, name) ==
    LET full == [i \in DOMAIN df |->
                   [date |-> df[i].date,
                    values |-> [o \in IndicatorOutputs(name) |->
                                   OutputValue(df, name, o, i)]]]
    IN SelectSeq(full, LAMBDA v : \E o \in DOMAIN v.values : v.values[o] # Null)

\* _calculate_indicator followed by _create_indicator_data: one entry per row
\* of the frame, in the frame's order
CalculateIndicator(df, name) ==
    [i \in DOMAIN df |->
        [date |-> df[i].date,
         values |-> [o \in IndicatorOutputs(name) |-> OutputValue(df, name, o, i)]]]

\* "except <clause>" catches e: Exception covers every error of the model,
\* ValueError covers its subclass JSONDecodeError
Catches(clause, e) ==
    \/ "Exception" \in clause
    \/ e \in clause
    \/ e = "JSONDecodeError" /\ "ValueError" \in clause

\* the branches of _calculate_indicator: startswith("SMA_"), startswith("EMA_"),
\* the nine exact names, else "Unknown indicator" and None
MalformedNames == {"SMA_x", "EMA_"}
KnownIndicator(name) == IndicatorOutputs(name) # {}

\* the exception _calculate_indicator raises for a name: int() of the text
\* after "SMA_" or "EMA_" raises ValueError when it is not a number
ComputationError(name) ==
    IF name \in MalformedNames THEN "ValueError" ELSE "none"

\* A plausible slip: a clause naming only the lookup errors
IndicatorGuardNarrow == {"KeyError", "IndexError"}

\* "except Exception as e: ... continue" around each identifier's computation
IndicatorGuard == {"Exception"}

\* the identifiers of the request the loop reaches: all of them, or those up
\* to the first one whose exception the clause lets through
RECURSIVE Reached(_, _)
Reached(df, indicators) ==
    IF indicators = <<>> THEN <<>>
    ELSE LET n == Head(indicators)
             attempted == Len(df) >= MinPeriod(n)
             e == ComputationError(n)
         IN IF attempted /\ e # "none" /\ ~Catches(IndicatorGuard, e)
            THEN <<n>>
            ELSE <<n>> \o Reached(df, Tail(indicators))

\* the exception that leaves calculate_for_data, "none" when it returns
CalculateForDataRaises(points, indicators) ==
    LET df == PrepareDataframe(points)
        reached == Reached(df, indicators)
        n == reached[Len(reached)]
    IN IF df = <<>> \/ reached = <<>> THEN "none"
       ELSE IF Len(df) >= MinPeriod(n) /\ ComputationError(n) # "none"
               /\ ~Catches(IndicatorGuard, ComputationError(n))
            THEN ComputationError(n)
            ELSE "none"

CalculateForData(points, indicators) ==
    LET df == PrepareDataframe(points)
        present == {indicators[k] : k \in DOMAIN indicators}
        kept == {n \in present : /\ Len(df) >= MinPeriod(n)
                                 /\ ComputationError(n) = "none"
                                 /\ KnownIndicator(n)}
    IN IF df = <<>> THEN <<>>
       ELSE [n \in kept |-> CalculateIndicator(df, n)]

(***************************************************************************)
(* Storage, cache and catalog                                              *)
(***************************************************************************)
Symbols == {"A", "B"}

\* CacheKeys.daily_data, weekly_data, latest_price, recent_data, symbol_list
DailyKey(s) == <<"data:daily", s>>
WeeklyKey(s) == <<"data:weekly", s>>
LatestKey(s) == <<"price:latest", s>>
RecentKey(s) == <<"data:recent", s>>
SymbolListKey == <<"symbols:list", "">>

CacheKeySet ==
    UNION {{DailyKey(s), WeeklyKey(s), LatestKey(s), RecentKey(s)} : s \in Symbols}
        \cup {SymbolListKey}

NoRun == [op |-> "none"]

\* SimpleCache after __init__: connected, or disabled without a client (caching
\* switched off, no credentials, or the connection test failed)
Connected == [enabled |-> TRUE, client |-> TRUE]
Disabled == [enabled |-> FALSE, client |-> FALSE]

\* the harnesses at rest
IdleMerge == mE = <<>> /\ mI = <<>> /\ m1 = NoResult /\ m2 = NoResult
IdleWeek == aggr = NoResult /\ pwb = NoResult /\ ind = NoResult

IdleStore ==
    /\ daily = [s \in Symbols |-> NoFile]
    /\ weekly = [s \in Symbols |-> NoFile]
    /\ catalog = <<>>
    /\ cache = [k \in CacheKeySet |-> NoEntry]
    /\ svc = Connected
    /\ last = NoRun
    /\ runs = [s \in Symbols |-> NoRun]
    /\ calls = 0

\* the blobs, the cache and the event log a handler works on
World == [daily |-> daily, weekly |-> weekly, catalog |-> catalog,
          cache |-> cache, events |-> <<>>]

Log(w, e) == [w EXCEPT !.events = Append(@, e)]

\* SimpleCache.delete
CacheDelete(w, key, e) == Log([w EXCEPT !.cache[key] = NoEntry], e)

IndicatorsEnabled == TRUE   \* settings.ENABLE_INDICATOR_CALCULATION

FileIndicators(points) ==
    IF IndicatorsEnabled THEN CalculateForData(points, DEFAULT_INDICATORS)
    ELSE <<>>

WeeklyDataFile(daily_data, weekly_points) ==
    [symbol |-> daily_data.symbol, data_type |-> "weekly",
     data_range |-> daily_data.data_range,
     data_points |-> weekly_points, total_records |-> Len(weekly_points),
     indicators |-> FileIndicators(weekly_points)]

(***************************************************************************)
(* StockDataDownloader._process_weekly_data; its result is not read by     *)
(* either caller                                                           *)
(***************************************************************************)
ProcessWeeklyData(w, daily_data, fault) ==
    LET agg == AggregateToWeekly(daily_data.data_points)
        w1 == Log(w, "weekly_agg")
        s == daily_data.symbol
    IN IF agg.raised \/ agg.points = <<>> THEN w1
       ELSE IF fault = "weekly_put" THEN Log(w1, "weekly_put_failed")
       ELSE CacheDelete(
                Log([w1 EXCEPT !.weekly[s] = WeeklyDataFile(daily_data, agg.points)],
                    "weekly_put"),
                WeeklyKey(s), "cache_del:weekly")

(***************************************************************************)
(* CatalogManager.update_catalog_for_symbol, in its three blob steps       *)
(***************************************************************************)
\* get_catalog: a failed or unparsable read yields an empty catalog
GetCatalog(w, fault) == IF fault = "catalog_get" THEN <<>> ELSE w.catalog

SymbolSummary(w, s) ==
    [symbol |-> s,
     start_date |-> w.daily[s].data_range.start,
     end_date |-> w.daily[s].data_range.end,
     total_days |-> Len(w.daily[s].data_points),
     has_weekly |-> w.weekly[s] # NoFile]

WithoutSymbol(symbols, s) == SelectSeq(symbols, LAMBDA e : e.symbol # s)

\* DataCatalog.add_or_update_symbol
AddOrUpdateSymbol(symbols, summary) ==
    Append(WithoutSymbol(symbols, summary.symbol), summary)

\* the rescan of the symbol's daily blob applied to the catalog that was read
ScanSymbol(w, s, cat) ==
    IF w.daily[s] = NoFile THEN WithoutSymbol(cat, s)
    ELSE AddOrUpdateSymbol(cat, SymbolSummary(w, s))

SaveCatalog(w, cat, fault) ==
    IF fault = "catalog_put" THEN Log(w, "catalog_put_failed")
    ELSE Log([w EXCEPT !.catalog = cat], "catalog_put")

UpdateCatalogForSymbol(w, s, fault) ==
    LET w1 == Log(w, "catalog_update")
    IN SaveCatalog(w1, ScanSymbol(w1, s, GetCatalog(w1, fault)), fault)

(***************************************************************************)
(* StockDataDownloader.download_symbol                                     *)
(***************************************************************************)
\* A plausible slip: the cache keys are invalidated ahead of the catalog update
AfterDailyPutInvalidateFirst(w, s, file, fault) ==
    LET w1 == ProcessWeeklyData(w, file, fault)
        w2 == CacheDelete(w1, DailyKey(s), "cache_del:daily")
        w3 == CacheDelete(w2, SymbolListKey, "cache_del:symbols")
    IN UpdateCatalogForSymbol(w3, s, fault)

\* lines 98-115: what follows a successful daily put
AfterDailyPut(w, s, file, fault) ==
    LET w1 == ProcessWeeklyData(w, file, fault)
        w2 == UpdateCatalogForSymbol(w1, s, fault)
        w3 == CacheDelete(w2, DailyKey(s), "cache_del:daily")
    IN CacheDelete(w3, SymbolListKey, "cache_del:symbols")

\* A plausible slip: the cache of the symbol is invalidated although the provider
\* returned nothing.
DownloadSymbolRunInvalidates(w, s, rows, fault) ==
    IF rows = <<>>
    THEN [w |-> CacheDelete(w, DailyKey(s), "cache_del:daily"), result |-> NoFile]
    ELSE LET conv == ConvertDataframeToPoints(rows)
         IN IF conv.raised THEN [w |-> Log(w, "raise"), result |-> NoFile]
            ELSE LET points == SortedByDate(conv.points)
                     file == StockDataFile(s, points, FileIndicators(points))
                 IN IF fault = "daily_put"
                    THEN [w |-> Log(w, "daily_put_failed"), result |-> NoFile]
                    ELSE [w |-> AfterDailyPut(
                                    Log([w EXCEPT !.daily[s] = file], "daily_put"),
                                    s, file, fault),
                          result |-> file]

DownloadSymbolRun(w, s, rows, fault) ==
    IF rows = <<>> THEN [w |-> w, result |-> NoFile]
    ELSE LET conv == ConvertDataframeToPoints(rows)
         IN IF conv.raised THEN [w |-> Log(w, "raise"), result |-> NoFile]
            ELSE LET points == SortedByDate(conv.points)
                     file == StockDataFile(s, points, FileIndicators(points))
                 IN IF fault = "daily_put"
                    THEN [w |-> Log(w, "daily_put_failed"), result |-> NoFile]
                    ELSE [w |-> AfterDailyPut(
                                    Log([w EXCEPT !.daily[s] = file], "daily_put"),
                                    s, file, fault),
                          result |-> file]

(***************************************************************************)
(* StockDataDownloader.download_incremental_for_symbol                     *)
(***************************************************************************)
NeedsFullDownload(w, s) ==
    w.daily[s] = NoFile \/ w.daily[s].data_points = <<>>

\* _calculate_incremental_range; the provider's end date is exclusive
IncrementalRange(latest_date) ==
    [start_date |-> latest_date - 1, end_date |-> Today + 1]

NoStats == [new_points |-> 0, duplicates |-> 0, warnings |-> <<>>, merged |-> <<>>,
            total_points |-> 0]

Outcome(w, status, new_data_points, stats) ==
    [w |-> w, status |-> status, new_data_points |-> new_data_points,
     stats |-> stats]

\* A plausible slip: the weekly file is rebuilt whatever the merge counted
AfterIncrementalPutAlwaysWeekly(w, s, file, stats, fault) ==
    LET w1 == ProcessWeeklyData(w, file, fault)
        w2 == UpdateCatalogForSymbol(w1, s, fault)
        w3 == CacheDelete(w2, DailyKey(s), "cache_del:daily")
        w4 == CacheDelete(w3, SymbolListKey, "cache_del:symbols")
    IN [w |-> Log(w4, "raise"), status |-> "error", new_data_points |-> 0,
        stats |-> stats]

\* lines 447-459: what follows a successful daily put; CacheKeys has no
\* attribute catalog, so line 459 raises and the handler reports "error"
AfterIncrementalPut(w, s, file, stats, fault) ==
    LET w1 == IF stats.new_points > 0 THEN ProcessWeeklyData(w, file, fault) ELSE w
        w2 == UpdateCatalogForSymbol(w1, s, fault)
        w3 == CacheDelete(w2, DailyKey(s), "cache_del:daily")
        w4 == CacheDelete(w3, SymbolListKey, "cache_del:symbols")
    IN Outcome(Log(w4, "raise"), "error", 0, stats)

\* A plausible slip: the fallback reports the rows the provider returned
DownloadIncrementalRunCountsRows(w, s, rows, fault) ==
    IF NeedsFullDownload(w, s)
    THEN LET r == DownloadSymbolRun(w, s, rows, fault)
         IN Outcome(r.w, "fallback_full_download",
                    IF r.result # NoFile THEN Len(rows) ELSE 0,
                    NoStats)
    ELSE IF rows = <<>> THEN Outcome(w, "no_new_data", 0, NoStats)
    ELSE LET existing_data == w.daily[s]
             conv == ConvertDataframeToPoints(rows)
         IN IF conv.raised THEN Outcome(Log(w, "raise"), "error", 0, NoStats)
            ELSE LET stats == MergePriceData(existing_data.data_points, conv.points)
                     indicators ==
                         IF IndicatorsEnabled /\ stats.new_points > 0
                         THEN CalculateForData(stats.merged, DEFAULT_INDICATORS)
                         ELSE existing_data.indicators
                     updated_data ==
                         StockDataFile(existing_data.symbol, stats.merged, indicators)
                 IN IF fault = "daily_put"
                    THEN Outcome(Log(w, "daily_put_failed"), "storage_error", 0, stats)
                    ELSE AfterIncrementalPut(
                             Log([w EXCEPT !.daily[s] = updated_data], "daily_put"),
                             s, updated_data, stats, fault)

DownloadIncrementalRun(w, s, rows, fault) ==
    IF NeedsFullDownload(w, s)
    THEN LET r == DownloadSymbolRun(w, s, rows, fault)
         IN Outcome(r.w, "fallback_full_download",
                    IF r.result # NoFile THEN Len(r.result.data_points) ELSE 0,
                    NoStats)
    ELSE IF rows = <<>> THEN Outcome(w, "no_new_data", 0, NoStats)
    ELSE LET existing_data == w.daily[s]
             conv == ConvertDataframeToPoints(rows)
         IN IF conv.raised THEN Outcome(Log(w, "raise"), "error", 0, NoStats)
            ELSE LET stats == MergePriceData(existing_data.data_points, conv.points)
                     indicators ==
                         IF IndicatorsEnabled /\ stats.new_points > 0
                         THEN CalculateForData(stats.merged, DEFAULT_INDICATORS)
                         ELSE existing_data.indicators
                     updated_data ==
                         StockDataFile(existing_data.symbol, stats.merged, indicators)
                 IN IF fault = "daily_put"
                    THEN Outcome(Log(w, "daily_put_failed"), "storage_error", 0, stats)
                    ELSE AfterIncrementalPut(
                             Log([w EXCEPT !.daily[s] = updated_data], "daily_put"),
                             s, updated_data, stats, fault)

(***************************************************************************)
(* The provider: rows of the market history, in tenths of a cent           *)
(***************************************************************************)
BasePrice(d) == 10000 + 10 * d

\* kinds of rows: "ok"; "restated" (close and high moved up); "nonpos" (open
\* is zero); "badhigh" (high below open); "closeabove" (close above high, high
\* not below open); "nan" (a missing price)
RawRow(d, kind) ==
    LET p == BasePrice(d)
        restated == kind = "restated"
    IN [date |-> d,
        open |-> IF kind = "nonpos" THEN 0 ELSE p * 10 + 4,
        high |-> IF kind = "badhigh" THEN (p - 10) * 10
                 ELSE IF restated THEN (p + 700) * 10 + 6 ELSE (p + 200) * 10 + 6,
        low |-> (p - 100) * 10 + 1,
        close |-> IF restated THEN (p + 650) * 10 + 2
                  ELSE IF kind = "closeabove" THEN (p + 250) * 10 + 2
                  ELSE (p + 50) * 10 + 2,
        adj_close |-> IF restated THEN (p + 650) * 10 + 2
                      ELSE IF kind = "closeabove" THEN (p + 250) * 10 + 2
                      ELSE (p + 50) * 10 + 2,
        volume |-> 1000 + d,
        nan |-> kind = "nan"]

\* the last trading day the provider has history for: the Friday before Today
LastHistoryDay == Today - 3
HistoryDays == SortedInts({d \in 0..LastHistoryDay : Weekday(d) < 5})

\* the history with the row of day d replaced by one of the given kind and the
\* row of day e by one of the other
HistoryWith(d, kind, e, other) ==
    [i \in DOMAIN HistoryDays |->
        RawRow(HistoryDays[i],
               IF HistoryDays[i] = d THEN kind
               ELSE IF HistoryDays[i] = e THEN other ELSE "ok")]

FullResponses ==
    {<<>>,
     HistoryWith(LastHistoryDay, "ok", LastHistoryDay, "ok"),
     HistoryWith(LastHistoryDay - 1, "nan", LastHistoryDay, "nonpos"),
     HistoryWith(LastHistoryDay - 1, "badhigh", LastHistoryDay, "ok"),
     <<RawRow(LastHistoryDay - 1, "closeabove"), RawRow(LastHistoryDay, "ok")>>}

IncrementalDays == {LastHistoryDay, Today}
\* kinds of the rows of an incremental response
RowKinds == {"ok", "restated", "badhigh"}

\* what the provider can return for [start_date, end_date): at most MaxRows
\* rows, in date order, one per day
IncrementalResponses(latest_date) ==
    LET range == IncrementalRange(latest_date)
        rows == {RawRow(d, k) : d \in {x \in IncrementalDays :
                                          range.start_date <= x /\ x < range.end_date},
                                k \in RowKinds}
    IN {r \in SeqsUpTo(rows, MaxRows) : StrictlyIncreasing(r)}

Responses(s) ==
    IF NeedsFullDownload(World, s) THEN FullResponses
    ELSE IncrementalResponses(daily[s].data_points[Len(daily[s].data_points)].date)

Faults == {"none", "daily_put", "weekly_put", "catalog_put"}

PipelineSymbols == {"A"}

(***************************************************************************)
(* The handlers as actions                                                 *)
(***************************************************************************)
Store(w) ==
    /\ daily' = w.daily
    /\ weekly' = w.weekly
    /\ catalog' = w.catalog
    /\ cache' = w.cache

\* download_multiple, lines 135-137: what it records for one symbol
DownloadMultipleResult(stock_data) == stock_data # NoFile

\* the counters of the merge, as the handler logs and returns them
StatsOf(stats) ==
    [new_points |-> stats.new_points, duplicates |-> stats.duplicates,
     warnings |-> stats.warnings, total_points |-> stats.total_points]

DownloadSymbol ==
    /\ calls < MaxCalls
    /\ \E s \in PipelineSymbols, rows \in FullResponses, fault \in Faults :
        \E r \in {DownloadSymbolRun(World, s, rows, fault)} :
           /\ calls' = calls + 1
           /\ Store(r.w)
           /\ last' = [op |-> "full", sym |-> s, fault |-> fault, rows |-> rows,
                       ok |-> DownloadMultipleResult(r.result),
                       status |-> IF r.result # NoFile THEN "stored" ELSE "none",
                       new_data_points |-> 0, stats |-> StatsOf(NoStats),
                       events |-> r.w.events,
                       prev |-> daily[s]]
           /\ UNCHANGED <<mE, mI, m1, m2, aggr, pwb, ind, svc, runs>>

DownloadIncrementalForSymbol ==
    /\ calls < MaxCalls
    /\ \E s \in PipelineSymbols, fault \in Faults :
        \E rows \in Responses(s) :
            \E r \in {DownloadIncrementalRun(World, s, rows, fault)} :
               /\ calls' = calls + 1
               /\ Store(r.w)
               /\ last' = [op |-> "incr", sym |-> s, fault |-> fault, rows |-> rows,
                           ok |-> r.status = "success",
                           status |-> r.status,
                           new_data_points |-> r.new_data_points,
                           stats |-> StatsOf(r.stats),
                           events |-> r.w.events,
                           prev |-> daily[s]]
               /\ UNCHANGED <<mE, mI, m1, m2, aggr, pwb, ind, svc, runs>>

Init ==
    /\ IdleMerge
    /\ IdleWeek
    /\ IdleStore

Next == DownloadSymbol \/ DownloadIncrementalForSymbol

Spec == Init /\ [][Next]_vars

(***************************************************************************)
(* Reading the record of the last handler run                              *)
(***************************************************************************)
Pos(events, e) ==
    IF \E i \in DOMAIN events : events[i] = e
    THEN CHOOSE i \in DOMAIN events :
             events[i] = e /\ \A j \in 1..(i - 1) : events[j] # e
    ELSE 0

Happened(e) == Pos(last.events, e) > 0

Before(a, b) ==
    (Happened(a) /\ Happened(b)) => Pos(last.events, a) < Pos(last.events, b)

PutFailed ==
    Happened("daily_put_failed") \/ Happened("weekly_put_failed")
        \/ Happened("catalog_put_failed")

\* the last run was an incremental update that went through the merge
MergeRan == last.op = "incr" /\ last.stats.total_points > 0

\* the last run was an incremental update that stored a daily file whose bars
\* differ from the bars stored before
IncrementalChangedDaily ==
    /\ MergeRan
    /\ Happened("daily_put")
    /\ daily[last.sym].data_points # last.prev.data_points

\* a provider row with every price positive and high/low consistent with
\* open and close
WellFormedRow(row) ==
    /\ ~row.nan
    /\ row.open > 0 /\ row.high > 0 /\ row.low > 0 /\ row.close > 0
    /\ row.high >= row.open /\ row.high >= row.close
    /\ row.low <= row.open /\ row.low <= row.close

C9_MalformedRowDropped ==
    (last.op = "full" /\ last.fault = "none"
        /\ (\E i \in DOMAIN last.rows : ~last.rows[i].nan /\ ~WellFormedRow(last.rows[i]))
        /\ (\E i \in DOMAIN last.rows : WellFormedRow(last.rows[i]))) =>
        /\ last.ok
        /\ \A i \in DOMAIN last.rows :
               WellFormedRow(last.rows[i]) =>
                   \E j \in DOMAIN daily[last.sym].data_points :
                       daily[last.sym].data_points[j] = ConvertRow(last.rows[i]).point

(***************************************************************************)
(* The cached read endpoints (api/v1/endpoints/data.py) next to the full   *)
(* download, with the cache enabled                                        *)
(***************************************************************************)
\* most handler calls in one behaviour of the cached service
MaxCacheCalls == MaxCalls + 1
RecentDays == 300   \* default of the days parameter of /data/{symbol}/recent

\* round(n / d, 0) for d > 0: nearest integer, ties to even
RoundDiv(n, d) ==
    LET q == n \div d
        r == n % d
    IN IF 2 * r > d THEN q + 1
       ELSE IF 2 * r < d THEN q
       ELSE IF q % 2 = 0 THEN q ELSE q + 1

\* SimpleCache.set_json: the entry holds the serialised body
CacheSet(key, value) == cache' = [cache EXCEPT ![key] = [value |-> value]]

\* the body of get_latest_price's response; change_percent in hundredths of a
\* percent
LatestPrice(s, latest) ==
    [symbol |-> s, date |-> latest.date, price |-> latest.close,
     open |-> latest.open, high |-> latest.high, low |-> latest.low,
     volume |-> latest.volume, change |-> latest.close - latest.open,
     change_percent |-> RoundDiv((latest.close - latest.open) * 10000, latest.open)]

\* the body of get_recent_data's response when no date range is given
RecentData(s, points) ==
    LET cutoff_date == Today - RecentDays
        recent_points == SelectSeq(points, LAMBDA q : q.date >= cutoff_date)
    IN [symbol |-> s, days |-> RecentDays, data_points |-> recent_points,
        start_date |-> IF recent_points # <<>> THEN recent_points[1].date ELSE Null,
        end_date |-> IF recent_points # <<>>
                     THEN recent_points[Len(recent_points)].date ELSE Null,
        record_count |-> Len(recent_points)]

\* list_available_symbols: the symbols that have a daily blob, sorted
AvailableSymbols ==
    LET present == {s \in Symbols : daily[s] # NoFile}
    IN IF present = {} THEN <<>>
       ELSE IF present = Symbols THEN <<"A", "B">>
       ELSE <<CHOOSE s \in present : TRUE>>

Served(op, s, how, body) ==
    last' = [op |-> op, sym |-> s, how |-> how, body |-> body]

\* one cached read: serve the entry of the key if there is one, else answer
\* 404 when the blob is missing, else build the body and cache it
CachedRead(op, s, key, missing, body) ==
    /\ calls < MaxCacheCalls
    /\ calls' = calls + 1
    /\ IF cache[key] # NoEntry
       THEN cache' = cache /\ Served(op, s, "hit", cache[key].value)
       ELSE IF missing
       THEN cache' = cache /\ Served(op, s, "404", Null)
       ELSE CacheSet(key, body) /\ Served(op, s, "miss", body)
    /\ UNCHANGED <<mE, mI, m1, m2, aggr, pwb, ind, svc, daily, weekly, catalog, runs>>

\* get_symbol_data without date range and without indicator filter
GetSymbolData ==
    \E s \in PipelineSymbols :
        CachedRead("get_daily", s, DailyKey(s), daily[s] = NoFile, daily[s])

\* get_weekly_data without date range
GetWeeklyData ==
    \E s \in PipelineSymbols :
        CachedRead("get_weekly", s, WeeklyKey(s), weekly[s] = NoFile, weekly[s])

GetLatestPrice ==
    \E s \in PipelineSymbols :
        LET missing == daily[s] = NoFile \/ daily[s].data_points = <<>>
        IN CachedRead("get_latest", s, LatestKey(s), missing,
                      IF missing THEN Null
                      ELSE LatestPrice(s, daily[s].data_points[Len(daily[s].data_points)]))

GetRecentData ==
    \E s \in PipelineSymbols :
        LET missing == daily[s] = NoFile \/ daily[s].data_points = <<>>
        IN CachedRead("get_recent", s, RecentKey(s), missing,
                      IF missing THEN Null ELSE RecentData(s, daily[s].data_points))

\* list_symbols: an empty cached list is falsy and counts as a miss
ListSymbols ==
    /\ calls < MaxCacheCalls
    /\ calls' = calls + 1
    /\ IF cache[SymbolListKey] # NoEntry /\ cache[SymbolListKey].value # <<>>
       THEN cache' = cache /\ Served("list", "", "hit", cache[SymbolListKey].value)
       ELSE CacheSet(SymbolListKey, AvailableSymbols)
                /\ Served("list", "", "miss", AvailableSymbols)
    /\ UNCHANGED <<mE, mI, m1, m2, aggr, pwb, ind, svc, daily, weekly, catalog, runs>>

\* provider responses of the cached service: a two-day history, as first
\* published and as restated
ShortHistory(kind) ==
    <<RawRow(LastHistoryDay - 1, "ok"), RawRow(LastHistoryDay, kind)>>

CacheResponses == {<<>>, ShortHistory("ok"), ShortHistory("restated")}

DownloadSymbolCached ==
    /\ calls < MaxCacheCalls
    /\ \E s \in PipelineSymbols, rows \in CacheResponses, fault \in Faults :
        \E r \in {DownloadSymbolRun(World, s, rows, fault)} :
           /\ calls' = calls + 1
           /\ Store(r.w)
           /\ last' = [op |-> "full", sym |-> s, fault |-> fault, rows |-> rows,
                       ok |-> DownloadMultipleResult(r.result),
                       status |-> IF r.result # NoFile THEN "stored" ELSE "none",
                       new_data_points |-> 0, stats |-> StatsOf(NoStats),
                       events |-> r.w.events,
                       prev |-> daily[s]]
           /\ UNCHANGED <<mE, mI, m1, m2, aggr, pwb, ind, svc, runs>>

NextCache ==
    \/ DownloadSymbolCached
    \/ GetSymbolData
    \/ GetWeeklyData
    \/ GetLatestPrice
    \/ GetRecentData
    \/ ListSymbols

SpecCache == Init /\ [][NextCache]_vars

SymbolCacheKeys(s) ==
    {DailyKey(s), WeeklyKey(s), LatestKey(s), RecentKey(s), SymbolListKey}

ConcResponses ==
    {<<>>, <<RawRow(LastHistoryDay, "ok")>>, ShortHistory("ok"),
     ShortHistory("restated")}

RunAt(pc, cat) == [op |-> "full", pc |-> pc, cat |-> cat]

\* download_symbol up to the call of update_catalog_for_symbol
StartRun(s) ==
    /\ runs[s] = NoRun
    /\ \E rows \in ConcResponses :
           LET conv == ConvertDataframeToPoints(rows)
               points == SortedByDate(conv.points)
               file == StockDataFile(s, points, FileIndicators(points))
               w == ProcessWeeklyData([World EXCEPT !.daily[s] = file], file, "none")
           IN IF rows = <<>> \/ conv.raised
              THEN /\ runs' = [runs EXCEPT ![s] = RunAt("done", <<>>)]
                   /\ UNCHANGED storeVars
              ELSE /\ runs' = [runs EXCEPT ![s] = RunAt("catalog_read", <<>>)]
                   /\ Store(w)
    /\ UNCHANGED <<mE, mI, m1, m2, aggr, pwb, ind, svc, last, calls>>

\* get_catalog: the run takes its copy of the catalog blob
CatalogRead(s) ==
    /\ runs[s] # NoRun /\ runs[s].pc = "catalog_read"
    /\ runs' = [runs EXCEPT ![s] = RunAt("catalog_scan", GetCatalog(World, "none"))]
    /\ UNCHANGED <<mE, mI, m1, m2, aggr, pwb, ind, svc, last, calls>>
    /\ UNCHANGED storeVars

\* blob_exists, download_json of the daily blob, add_or_update_symbol on the copy
CatalogScan(s) ==
    /\ runs[s] # NoRun /\ runs[s].pc = "catalog_scan"
    /\ runs' = [runs EXCEPT ![s] = RunAt("catalog_write",
                                        ScanSymbol(World, s, runs[s].cat))]
    /\ UNCHANGED <<mE, mI, m1, m2, aggr, pwb, ind, svc, last, calls>>
    /\ UNCHANGED storeVars

\* upload_json of the copy, then download_symbol's cache invalidation
CatalogWrite(s) ==
    /\ runs[s] # NoRun /\ runs[s].pc = "catalog_write"
    /\ LET w1 == SaveCatalog(World, runs[s].cat, "none")
           w2 == CacheDelete(w1, DailyKey(s), "cache_del:daily")
       IN Store(CacheDelete(w2, SymbolListKey, "cache_del:symbols"))
    /\ runs' = [runs EXCEPT ![s] = RunAt("done", runs[s].cat)]
    /\ UNCHANGED <<mE, mI, m1, m2, aggr, pwb, ind, svc, last, calls>>

NextConc ==
    \E s \in Symbols :
        \/ StartRun(s)
        \/ CatalogRead(s)
        \/ CatalogScan(s)
        \/ CatalogWrite(s)

SpecConc == Init /\ [][NextConc]_vars

AllRunsDone == \A s \in Symbols : runs[s] # NoRun /\ runs[s].pc = "done"

CatalogEntries(s) == {i \in DOMAIN catalog : catalog[i].symbol = s}

MergeDates == {1, 2, 9}

MergeBase(d) == Bar(d, 10000, 10200, 9900, 10000, 1000)
\* close restated by 1.01 %: significant against the base bar, while the base
\* bar is not significant against it (the ratio is taken over point1.close)
MergeRestated(d) == Bar(d, 10000, 10200, 9900, 10101, 1000)
\* volume restated by 20 %
MergeVolume(d) == Bar(d, 10000, 10200, 9900, 10000, 1200)

\* a bar of a low-priced day and the same bar with its close restated by
\* exactly 1 %
MergeLow(d) == Bar(d, 700, 720, 690, 700, 1000)
MergeLowRestated(d) == Bar(d, 700, 720, 690, 707, 1000)

MergeBars ==
    {MergeBase(d) : d \in MergeDates} \cup {MergeRestated(d) : d \in MergeDates}
        \cup {MergeVolume(2), MergeLow(2), MergeLowRestated(2)}

InitMerge ==
    /\ mE \in SeqsUpTo(MergeBars, MaxLen)
    /\ mI \in SeqsUpTo(MergeBars, MaxLen)
    /\ m1 = NoResult
    /\ m2 = NoResult
    /\ IdleWeek
    /\ IdleStore

MergeFirst ==
    /\ m1 = NoResult
    /\ m1' = MergePriceData(mE, mI)
    /\ UNCHANGED <<mE, mI, m2>> /\ UNCHANGED weekVars /\ UNCHANGED pipeVars

MergeAgain ==
    /\ m1 # NoResult
    /\ m2 = NoResult
    /\ m2' = MergePriceData(m1.merged, mI)
    /\ UNCHANGED <<mE, mI, m1>> /\ UNCHANGED weekVars /\ UNCHANGED pipeVars

NextMerge == MergeFirst \/ MergeAgain

SpecMerge == InitMerge /\ [][NextMerge]_vars

(***************************************************************************)
(* C1: for any existing and any incoming series (any order, overlapping    *)
(* or not, duplicate dates included) the merged list returned by           *)
(* _merge_price_data is strictly increasing by date, hence holds no two    *)
(* bars of the same date.                                                  *)
(***************************************************************************)
C1_MergeChronology ==
    /\ (m1 # NoResult => StrictlyIncreasing(m1.merged) /\ DateUnique(m1.merged))
    /\ (m2 # NoResult => StrictlyIncreasing(m2.merged) /\ DateUnique(m2.merged))

\* an unsorted existing series with a repeated date, and an incoming bar that
\* lies before every existing bar
C1_Witness ==
    /\ m1 # NoResult
    /\ Len(mE) = 2 /\ mE[1].date = 9 /\ mE[2].date = 9
    /\ Len(mI) = 2 /\ mI[1].date = 2 /\ mI[2].date = 1
    /\ Len(m1.merged) = 3

(***************************************************************************)
(* C10: for a date-unique existing series E and a date-unique incoming     *)
(* series I, with (M, s) = merge(E, I), merge(M, I) returns a series equal *)
(* to M with new_points = 0, no overwrite warning and duplicates = len(I). *)
(***************************************************************************)
C10_MergeIdempotent ==
    (m2 # NoResult /\ DateUnique(mE) /\ DateUnique(mI)) =>
        /\ m2.merged = m1.merged
        /\ m2.new_points = 0
        /\ OverwriteWarnings(m2) = {}
        /\ m2.duplicates = Len(mI)

\* the first merge both added a new date and overwrote an existing bar
C10_Witness ==
    /\ m2 # NoResult
    /\ DateUnique(mE) /\ DateUnique(mI)
    /\ m1.new_points > 0
    /\ OverwriteWarnings(m1) # {}

(***************************************************************************)
(* C11: for an incoming bar whose date already exists in the existing      *)
(* series: if the relative close difference exceeds 1 % or the relative    *)
(* volume difference exceeds 10 %, the merged series holds the incoming    *)
(* bar for that date and exactly one overwrite warning is recorded for it  *)
(* (the bar counts neither as new nor as duplicate); otherwise the merged  *)
(* series keeps the existing bar unchanged and the duplicates count        *)
(* increases by one.                                                       *)
(***************************************************************************)
\* the thresholds as stated, on the exact prices (cents) and volumes
ExceedsThresholds(e, n) ==
    \/ Abs(e.close - n.close) * 100 > e.close
    \/ Abs(e.volume - n.volume) * 10 > e.volume

BarOn(series, d) == CHOOSE b \in {series[i] : i \in DOMAIN series} : b.date = d

WarningsFor(stats, d) ==
    {i \in OverwriteWarnings(stats) : stats.warnings[i].date = d}

Overlapping(E, I) == {i \in DOMAIN I : I[i].date \in Dates(E)}

C12_NewPointsCount ==
    (m1 # NoResult /\ DateUnique(mE) /\ DateUnique(mI)) =>
        /\ m1.new_points = Cardinality(Dates(mI) \ Dates(mE))
        /\ Len(m1.merged) = Len(mE) + m1.new_points
        /\ m1.total_points = Len(m1.merged)

\* one incoming bar is new, the other overwrites an existing bar
C12_Witness ==
    /\ m1 # NoResult
    /\ DateUnique(mE) /\ DateUnique(mI)
    /\ Len(mE) = 2 /\ Len(mI) = 2
    /\ m1.new_points = 1
    /\ OverwriteWarnings(m1) # {}

(***************************************************************************)
(* C13: every bar contained in any persisted daily file satisfies          *)
(* open, high, low, close, adjusted_close > 0, volume >= 0,                *)
(* high >= max(open, close) and low <= min(open, close), for every         *)
(* provider response the conversion accepts.                               *)
(***************************************************************************)
BarInvariant(p) ==
    /\ p.open > 0 /\ p.high > 0 /\ p.low > 0 /\ p.close > 0 /\ p.adj_close > 0
    /\ p.volume >= 0
    /\ p.high >= Max2(p.open, p.close)
    /\ p.low <= Min2(p.open, p.close)

MaxBars == 6

AggDays == {0, 1, 2, 3, 4, 5, 8}

\* one validated bar per day; the prices do not grow with the date
AggBar(d) ==
    LET b == 10000 + 100 * ((3 * d) % 7)
    IN Bar(d, b, b + 150, b - 150, b + 50, 1000 + d)

\* a second bar of day 1
AggBarAgain == Bar(1, 9000, 9100, 8900, 9050, 500)

AggBars == {AggBar(d) : d \in AggDays} \cup {AggBarAgain}

\* the lists of at most n different elements of S
RECURSIVE Arrangements(_, _)
Arrangements(S, n) ==
    IF n = 0 THEN {<<>>}
    ELSE {<<>>} \cup
         UNION {{<<x>> \o s : s \in Arrangements(S \ {x}, n - 1)} : x \in S}

InitWeekly ==
    /\ aggr \in {[daily_data |-> s, result |-> NoResult, ordered |-> NoResult] :
                    s \in Arrangements(AggBars, MaxBars)}
    /\ pwb = NoResult
    /\ ind = NoResult
    /\ IdleMerge
    /\ IdleStore

AggregateFirst ==
    /\ aggr.result = NoResult
    /\ aggr' = [aggr EXCEPT !.result = AggregateToWeekly(aggr.daily_data)]
    /\ UNCHANGED <<pwb, ind, mergeVars, pipeVars>>

AggregateOrdered ==
    /\ aggr.result # NoResult
    /\ aggr.ordered = NoResult
    /\ \E other \in {SortedByDate(aggr.daily_data)} :
          aggr' = [aggr EXCEPT !.ordered =
                      [daily_data |-> other, result |-> AggregateToWeekly(other)]]
    /\ UNCHANGED <<pwb, ind, mergeVars, pipeVars>>

NextWeekly == AggregateFirst \/ AggregateOrdered

SpecWeekly == InitWeekly /\ [][NextWeekly]_vars

Aggregated == aggr.result # NoResult

WeekOf(d) == GetWeekBoundaries(d).week_start

\* the positions of the input bars that fall in the week starting on monday
InWeek(daily_data, monday) ==
    {i \in DOMAIN daily_data : WeekOf(daily_data[i].date) = monday}

(***************************************************************************)
(* C14: aggregate_to_weekly raises no exception for any input list of      *)
(* validated daily bars (any dates, any order, any number of bars falling  *)
(* in the same week); it always returns a list of weekly bars.             *)
(***************************************************************************)
C14_AggregateNeverRaises ==
    Aggregated =>
        ((\A i \in DOMAIN aggr.daily_data : ValidPoint(aggr.daily_data[i]))
            => ~aggr.result.raised)

(***************************************************************************)
(* C15: for any non-empty set of daily bars with distinct dates that all   *)
(* fall in one Monday-anchored week, presented in any order,               *)
(* aggregate_to_weekly returns exactly one weekly bar whose open is the    *)
(* earliest-dated bar's open, whose close is the latest-dated bar's close, *)
(* whose high is the maximum high and whose low is the minimum low; the    *)
(* result is the same for every permutation of the input (the result for   *)
(* a list equals the result for the same bars in date order, which is one  *)
(* list for all permutations of bars with distinct dates).                 *)
(***************************************************************************)
OneWeek(daily_data) ==
    /\ daily_data # <<>>
    /\ DateUnique(daily_data)
    /\ \A i, j \in DOMAIN daily_data :
          WeekOf(daily_data[i].date) = WeekOf(daily_data[j].date)

C15_OneWeekOneBar ==
    (Aggregated /\ OneWeek(aggr.daily_data)) =>
        LET D == aggr.daily_data
            first == CHOOSE i \in DOMAIN D : \A j \in DOMAIN D : D[i].date <= D[j].date
            final == CHOOSE i \in DOMAIN D : \A j \in DOMAIN D : D[j].date <= D[i].date
        IN /\ ~aggr.result.raised
           /\ Len(aggr.result.points) = 1
           /\ aggr.result.points[1].open = D[first].open
           /\ aggr.result.points[1].close = D[final].close
           /\ \A i \in DOMAIN D : /\ D[i].high <= aggr.result.points[1].high
                                  /\ aggr.result.points[1].low <= D[i].low
           /\ \E i \in DOMAIN D : D[i].high = aggr.result.points[1].high
           /\ \E i \in DOMAIN D : D[i].low = aggr.result.points[1].low
           /\ aggr.ordered # NoResult => aggr.ordered.result = aggr.result

C17_OneBarPerWeek ==
    Aggregated =>
        LET D == aggr.daily_data
            W == aggr.result.points
        IN /\ ~aggr.result.raised
           /\ {W[k].week_start : k \in DOMAIN W} = {WeekOf(D[i].date) : i \in DOMAIN D}
           /\ \A k \in DOMAIN W :
                 /\ k > 1 => W[k - 1].week_start < W[k].week_start
                 /\ Weekday(W[k].week_start) = 0
                 /\ W[k].week_ending = W[k].week_start + 4
                 /\ W[k].trading_days = Cardinality(InWeek(D, W[k].week_start))

(***************************************************************************)
(* Harness of get_partial_week_boundaries: it is applied to every pair of  *)
(* dates of the first MaxDay + 1 days.                                     *)
(***************************************************************************)
MaxDay == 20

InitBoundaries ==
    /\ pwb \in {[start_date |-> s, end_date |-> e, weeks |-> NoResult] :
                   s \in 0..MaxDay, e \in 0..MaxDay}
    /\ aggr = NoResult
    /\ ind = NoResult
    /\ IdleMerge
    /\ IdleStore

PartialWeekBoundaries ==
    /\ pwb.weeks = NoResult
    /\ pwb' = [pwb EXCEPT !.weeks =
                  [windows |-> GetPartialWeekBoundaries(pwb.start_date, pwb.end_date)]]
    /\ UNCHANGED <<aggr, ind, mergeVars, pipeVars>>

NextBoundaries == PartialWeekBoundaries

SpecBoundaries == InitBoundaries /\ [][NextBoundaries]_vars

\* the Mondays of the Monday-to-Friday weeks that share a day with the range
OverlappingWeeks(start_date, end_date) ==
    {m \in (start_date - 6)..end_date :
        /\ Weekday(m) = 0
        /\ \E d \in m..(m + 4) : start_date <= d /\ d <= end_date}

(***************************************************************************)
(* C18: for any start_date <= end_date, get_partial_week_boundaries        *)
(* returns windows in increasing order, one per Monday-to-Friday week      *)
(* overlapping the range; every window satisfies                           *)
(* start_date <= window_start <= window_end <= end_date, the first window  *)
(* starts at the later of its Monday and start_date, the last ends at the  *)
(* earlier of its Friday and end_date, and every interior window is a full *)
(* Monday..Friday.                                                         *)
(***************************************************************************)
C18_WindowsClipped ==
    (pwb # NoResult /\ pwb.weeks # NoResult /\ pwb.start_date <= pwb.end_date) =>
        LET W == pwb.weeks.windows
            n == Len(W)
            s == pwb.start_date
            e == pwb.end_date
        IN /\ \A k \in 2..n : W[k - 1][1] < W[k][1]
           /\ n = Cardinality(OverlappingWeeks(s, e))
           /\ {WeekOf(W[k][1]) : k \in 1..n} = OverlappingWeeks(s, e)
           /\ \A k \in 1..n : s <= W[k][1] /\ W[k][1] <= W[k][2] /\ W[k][2] <= e
           /\ n >= 1 =>
                 /\ W[1][1] = Max2(WeekOf(W[1][1]), s)
                 /\ W[n][2] = Min2(WeekOf(W[n][2]) + 4, e)
           /\ \A k \in 2..(n - 1) :
                 Weekday(W[k][1]) = 0 /\ W[k][2] = W[k][1] + 4

(***************************************************************************)
(* C19: when the provider returns no rows for a full download,             *)
(* download_symbol returns None and performs no blob put and no cache      *)
(* delete: the stored files, the catalog and the cache are unchanged.      *)
(***************************************************************************)
C19_EmptyResponseNoEffect ==
    [][(calls' = calls + 1 /\ last'.op = "full" /\ last'.rows = <<>>) =>
          /\ last'.status = "none"
          /\ ~last'.ok
          /\ last'.events = <<>>
          /\ daily' = daily /\ weekly' = weekly
          /\ catalog' = catalog
          /\ cache' = cache]_vars

\* an empty response for a symbol that has stored files, a catalog entry and
\* cached responses
C19_Witness ==
    /\ last.op = "full" /\ last.rows = <<>>
    /\ daily[last.sym] # NoFile /\ weekly[last.sym] # NoFile
    /\ catalog # <<>>
    /\ \E k \in CacheKeySet : cache[k] # NoEntry

(***************************************************************************)
(* C20: an incremental update for a symbol with no stored daily file (or a *)
(* stored file with zero bars) performs a full download, never runs the    *)
(* merge, and reports status fallback_full_download with new_data_points   *)
(* equal to the number of bars the full download persisted.                *)
(***************************************************************************)
NothingStored(file) == file = NoFile \/ file.data_points = <<>>

\* the bars the run persisted for the symbol
PersistedBars ==
    IF Happened("daily_put") THEN daily[last.sym].data_points ELSE <<>>

MaxBatch == 2       \* most symbols in one download_multiple request

\* what happens to one symbol of a batch: the provider returns nothing, a
\* two-day history is stored, its daily put fails, its weekly put fails, or
\* the conversion of the history raises
BatchInputs ==
    {[rows |-> <<>>, fault |-> "none"],
     [rows |-> ShortHistory("ok"), fault |-> "none"],
     [rows |-> ShortHistory("ok"), fault |-> "daily_put"],
     [rows |-> ShortHistory("ok"), fault |-> "weekly_put"],
     [rows |-> ShortHistory("badhigh"), fault |-> "none"]}

\* results[symbol] = value on a Python dict
ResultSet(results, symbol, value) ==
    IF \E i \in DOMAIN results : results[i].symbol = symbol
    THEN [i \in DOMAIN results |->
             IF results[i].symbol = symbol THEN [symbol |-> symbol, ok |-> value]
             ELSE results[i]]
    ELSE Append(results, [symbol |-> symbol, ok |-> value])

\* A plausible slip: after a failed symbol every later symbol is recorded false
DownloadMultipleStepSticky(st, symbol, input) ==
    LET r == DownloadSymbolRun([st.w EXCEPT !.events = <<>>], symbol,
                               input.rows, input.fault)
        failed == \E i \in DOMAIN st.results : ~st.results[i].ok
    IN [w |-> r.w,
        results |-> ResultSet(st.results, symbol,
                              DownloadMultipleResult(r.result) /\ ~failed),
        steps |-> Append(st.steps,
                         [symbol |-> symbol, rows |-> input.rows,
                          fault |-> input.fault, events |-> r.w.events])]

\* one iteration of "for symbol in symbols" (download_symbol catches every
\* exception itself, so the except branch of the loop body is never taken)
DownloadMultipleStep(st, symbol, input) ==
    LET r == DownloadSymbolRun([st.w EXCEPT !.events = <<>>], symbol,
                               input.rows, input.fault)
    IN [w |-> r.w,
        results |-> ResultSet(st.results, symbol, DownloadMultipleResult(r.result)),
        steps |-> Append(st.steps,
                         [symbol |-> symbol, rows |-> input.rows,
                          fault |-> input.fault, events |-> r.w.events])]

RECURSIVE DownloadMultipleLoop(_, _, _, _)
DownloadMultipleLoop(st, symbols, inputs, i) ==
    IF i > Len(symbols) THEN st
    ELSE DownloadMultipleLoop(DownloadMultipleStep(st, symbols[i], inputs[i]),
                              symbols, inputs, i + 1)

DownloadMultipleRun(w, symbols, inputs) ==
    DownloadMultipleLoop([w |-> w, results |-> <<>>, steps |-> <<>>],
                         symbols, inputs, 1)

DownloadMultiple ==
    /\ last = NoRun
    /\ \E symbols \in SeqsUpTo(Symbols, MaxBatch) :
        \E inputs \in [DOMAIN symbols -> BatchInputs] :
            \E r \in {DownloadMultipleRun(World, symbols, inputs)} :
               /\ calls' = calls + 1
               /\ Store(r.w)
               /\ last' = [op |-> "multiple", symbols |-> symbols,
                           results |-> r.results, steps |-> r.steps,
                           prev |-> [daily |-> daily, weekly |-> weekly]]
               /\ UNCHANGED <<mE, mI, m1, m2, aggr, pwb, ind, svc, runs>>

NextBatch == DownloadMultiple

SpecBatch == Init /\ [][NextBatch]_vars

\* the iterations of the last batch that handled symbol s
StepsOf(s) == {i \in DOMAIN last.steps : last.steps[i].symbol = s}

\* the download of iteration i succeeded: the provider returned rows, their
\* conversion did not raise and the daily put did not fail
StepSucceeded(i) ==
    /\ last.steps[i].rows # <<>>
    /\ ~ConvertDataframeToPoints(last.steps[i].rows).raised
    /\ last.steps[i].fault # "daily_put"

ClientErrors == {"ConnectionError", "TimeoutError", "ResponseError"}

\* A plausible slip: the clause of _connect (line 51) around the client calls
ClientGuardNarrow == {"ConnectionError", "TimeoutError"}

\* "except Exception as e" around the client call of get, set, delete and
\* clear_pattern
ClientGuard == {"Exception"}

Returned(store, value) == [store |-> store, returned |-> value, propagated |-> "none"]
Propagated(store, e) == [store |-> store, returned |-> Null, propagated |-> e]

Usable(c) == c.enabled /\ c.client

\* what leaves a try block whose client call raised err
AfterClientError(store, err) ==
    IF Catches(ClientGuard, err) THEN Returned(store, Null)
    ELSE Propagated(store, err)

SimpleCacheGet(c, store, key, err) ==
    IF ~Usable(c) THEN Returned(store, Null)
    ELSE IF err # "none" THEN AfterClientError(store, err)
    ELSE Returned(store, IF store[key] = NoEntry THEN Null ELSE store[key].value)

SimpleCacheSet(c, store, key, value, err) ==
    IF ~Usable(c) THEN Returned(store, Null)
    ELSE IF err # "none" THEN AfterClientError(store, err)
    ELSE Returned([store EXCEPT ![key] = [value |-> value]], Null)

SimpleCacheDelete(c, store, key, err) ==
    IF ~Usable(c) THEN Returned(store, Null)
    ELSE IF err # "none" THEN AfterClientError(store, err)
    ELSE Returned([store EXCEPT ![key] = NoEntry], Null)

\* a pattern "<prefix>:*" matches the keys of that prefix; err is raised by
\* scan_iter or by delete, before any key is removed
SimpleCacheClearPattern(c, store, prefix, err) ==
    IF ~Usable(c) THEN Returned(store, Null)
    ELSE IF err # "none" THEN AfterClientError(store, err)
    ELSE Returned([k \in DOMAIN store |->
                      IF k[1] = prefix THEN NoEntry ELSE store[k]], Null)

\* json.dumps and json.loads: a text is the serialisation of an object or is
\* not JSON; an object that holds a value json cannot encode raises TypeError
InvalidJson == [text |-> "invalid-json"]
JsonDumps(obj) ==
    IF obj.encodable THEN [raised |-> "none", text |-> [text |-> "json", of |-> obj]]
    ELSE [raised |-> "TypeError", text |-> InvalidJson]
JsonLoads(text) ==
    IF text.text = "json" THEN [raised |-> "none", obj |-> text.of]
    ELSE [raised |-> "JSONDecodeError", obj |-> Null]

SimpleCacheGetJson(c, store, key, err) ==
    LET got == SimpleCacheGet(c, store, key, err)
    IN IF got.propagated # "none" \/ got.returned = Null THEN got
       ELSE LET parsed == JsonLoads(got.returned)
            IN IF parsed.raised = "none" THEN Returned(store, parsed.obj)
               ELSE IF Catches({"JSONDecodeError"}, parsed.raised)
               THEN Returned(store, Null)
               ELSE Propagated(store, parsed.raised)

SimpleCacheSetJson(c, store, key, obj, err) ==
    LET dumped == JsonDumps(obj)
    IN IF dumped.raised = "none" THEN SimpleCacheSet(c, store, key, dumped.text, err)
       ELSE IF Catches({"TypeError", "ValueError"}, dumped.raised)
       THEN Returned(store, Null)
       ELSE Propagated(store, dumped.raised)

(***************************************************************************)
(* Harness of SimpleCache: the object is connected or disabled; every      *)
(* operation is called on a few keys with the client working or raising.   *)
(***************************************************************************)
HarnessKeys == {DailyKey("A"), LatestKey("A"), SymbolListKey}
HarnessPrefixes == {"data:daily", "price:latest"}
HarnessObjects == {[encodable |-> TRUE, body |-> "quote"],
                   [encodable |-> FALSE, body |-> "date"]}
HarnessTexts == {JsonDumps(o).text : o \in HarnessObjects}
ClientBehaviours == ClientErrors \cup {"none"}

InitSimpleCache ==
    /\ IdleMerge /\ IdleWeek
    /\ daily = [s \in Symbols |-> NoFile]
    /\ weekly = [s \in Symbols |-> NoFile]
    /\ catalog = <<>>
    /\ cache = [k \in CacheKeySet |-> NoEntry]
    /\ svc \in {Connected, Disabled}
    /\ last = NoRun
    /\ runs = [s \in Symbols |-> NoRun]
    /\ calls = 0

\* the call returns (or not) and the store is what the operation left
CacheCall(op, key, err, r) ==
    /\ cache' = r.store
    /\ last' = [op |-> op, key |-> key, err |-> err, returned |-> r.returned,
                propagated |-> r.propagated, stored |-> cache[key]]
    /\ UNCHANGED <<mE, mI, m1, m2, aggr, pwb, ind, svc, daily, weekly, catalog, runs, calls>>

CacheGet ==
    \E key \in HarnessKeys, err \in ClientBehaviours :
        CacheCall("get", key, err, SimpleCacheGet(svc, cache, key, err))

CacheSetValue ==
    \E key \in HarnessKeys, err \in ClientBehaviours, value \in HarnessTexts :
        CacheCall("set", key, err, SimpleCacheSet(svc, cache, key, value, err))

CacheDeleteKey ==
    \E key \in HarnessKeys, err \in ClientBehaviours :
        CacheCall("delete", key, err, SimpleCacheDelete(svc, cache, key, err))

CacheClearPattern ==
    \E prefix \in HarnessPrefixes, err \in ClientBehaviours :
        CacheCall("clear_pattern", <<prefix, "A">>, err,
                  SimpleCacheClearPattern(svc, cache, prefix, err))

CacheGetJson ==
    \E key \in HarnessKeys, err \in ClientBehaviours :
        CacheCall("get_json", key, err, SimpleCacheGetJson(svc, cache, key, err))

CacheSetJson ==
    \E key \in HarnessKeys, err \in ClientBehaviours, obj \in HarnessObjects :
        CacheCall("set_json", key, err, SimpleCacheSetJson(svc, cache, key, obj, err))

NextSimpleCache ==
    \/ CacheGet
    \/ CacheSetValue
    \/ CacheDeleteKey
    \/ CacheClearPattern
    \/ CacheGetJson
    \/ CacheSetJson

SpecSimpleCache == InitSimpleCache /\ [][NextSimpleCache]_vars

CacheOps == {"get", "set", "delete", "clear_pattern", "get_json", "set_json"}

(***************************************************************************)
(* C22: every SimpleCache operation (get, set, delete, clear_pattern,      *)
(* get_json, set_json) returns normally when the cache is disabled, not    *)
(* connected, or the underlying client raises; get and get_json then       *)
(* return None (a cache miss), and no cache failure ever propagates to the *)
(* caller.                                                                 *)
(***************************************************************************)
C22_CacheNeverRaises ==
    last.op \in CacheOps =>
        /\ last.propagated = "none"
        /\ (~svc.enabled \/ ~svc.client \/ last.err # "none") =>
               (last.op \in {"get", "get_json"} => last.returned = Null)

\* get_json on a key that holds a value while the client raises an error that
\* is neither a connection error nor a timeout
C22_Witness ==
    /\ last.op = "get_json"
    /\ svc = Connected
    /\ last.err = "ResponseError"
    /\ last.stored # NoEntry
    /\ last.returned = Null

(***************************************************************************)
(* Indicator calculator harness: calculate_for_data applied to a daily or  *)
(* weekly series of every length up to MaxSeries, in ascending or          *)
(* descending order, for the predefined sets, every single identifier of   *)
(* the minimum-history table and requests holding an unknown or malformed  *)
(* name.                                                                   *)
(***************************************************************************)
MaxSeries == 50

\* the two lengths around the longest minimum of the table
LongLengths ==
    {INDICATOR_MIN_PERIODS["SMA_200"] - 1, INDICATOR_MIN_PERIODS["SMA_200"]}

INDICATOR_SETS ==
    [default |-> DEFAULT_INDICATORS,
     chart_basic |-> <<"SMA_20", "SMA_50", "VOLUME_SMA_20">>,
     chart_advanced |-> <<"SMA_20", "SMA_50", "EMA_12", "EMA_26", "MACD",
                          "RSI_14", "BB_20">>,
     chart_full |-> <<"SMA_20", "SMA_50", "SMA_200", "EMA_12", "EMA_26",
                      "MACD", "RSI_14", "BB_20", "ADX_14", "ATR_14",
                      "VOLUME_SMA_20", "OBV">>,
     scan_momentum |-> <<"RSI_14", "MACD", "STOCH">>,
     scan_trend |-> <<"ADX_14", "SMA_20", "SMA_50", "SMA_200">>,
     scan_volatility |-> <<"ATR_14", "BB_20">>,
     scan_volume |-> <<"OBV", "VOLUME_SMA_20", "CMF_20">>]

IndicatorDailyBar(k) ==
    [date |-> k, open |-> 1000 + k, high |-> 1010 + k, low |-> 990 + k,
     close |-> 1005 + (k % 3), volume |-> 100 * k]

IndicatorWeeklyBar(k) ==
    [week_start |-> 7 * (k - 1), week_ending |-> 7 * (k - 1) + 4,
     trading_days |-> 5, open |-> 1000 + k, high |-> 1010 + k,
     low |-> 990 + k, close |-> 1005 + (k % 3), volume |-> 500 * k]

IndicatorSeries(kind, order, n) ==
    [i \in 1..n |->
        LET k == IF order = "ascending" THEN i ELSE n + 1 - i
        IN IF kind = "daily" THEN IndicatorDailyBar(k)
           ELSE IndicatorWeeklyBar(k)]

FailingRequests ==
    {<<"UNKNOWN">>, <<"SMA_x">>, <<"SMA_x", "SMA_20", "OBV">>,
     <<"RSI_14", "UNKNOWN", "STOCH">>, <<"OBV", "EMA_", "ATR_14", "UNKNOWN">>}

Requests ==
    {INDICATOR_SETS[k] : k \in DOMAIN INDICATOR_SETS}
        \cup {<<n>> : n \in DOMAIN INDICATOR_MIN_PERIODS}
        \cup FailingRequests

IndicatorCall(points, r) ==
    [points |-> points, indicators |-> r, done |-> FALSE, raised |-> "none",
     result |-> <<>>]

InitIndicators ==
    /\ \/ \E kind \in {"daily", "weekly"}, n \in 0..MaxSeries, r \in Requests,
             order \in {"ascending", "descending"} :
              ind = IndicatorCall(IndicatorSeries(kind, order, n), r)
       \/ \E n \in LongLengths, r \in {<<"SMA_200">>, INDICATOR_SETS["scan_trend"]} :
              ind = IndicatorCall(IndicatorSeries("daily", "descending", n), r)
    /\ aggr = NoResult
    /\ pwb = NoResult
    /\ IdleMerge
    /\ IdleStore

\* calculate_for_data(stock_data, indicators)
CalculateFor ==
    /\ ind # NoResult
    /\ ~ind.done
    /\ \E e \in {CalculateForDataRaises(ind.points, ind.indicators)} :
          ind' = [ind EXCEPT
                    !.done = TRUE,
                    !.raised = e,
                    !.result = IF e = "none"
                               THEN CalculateForData(ind.points, ind.indicators)
                               ELSE <<>>]
    /\ UNCHANGED <<aggr, pwb, mergeVars, pipeVars>>

NextIndicators == CalculateFor

SpecIndicators == InitIndicators /\ [][NextIndicators]_vars

Calculated == ind # NoResult /\ ind.done
Requested == {ind.indicators[k] : k \in DOMAIN ind.indicators}
Bars == Len(ind.points)

\* C23: for every identifier of the minimum-history table, a call over a
\* series with fewer bars than the identifier's minimum returns without
\* raising a map that does not hold the identifier, and every other requested
\* identifier is in the map exactly when it is in the map of a call asking
\* for it alone, with the same series.
C23_BelowMinimumAbsent ==
    Calculated =>
        \A n \in Requested \cap DOMAIN INDICATOR_MIN_PERIODS :
            Bars < INDICATOR_MIN_PERIODS[n] =>
                /\ ind.raised = "none"
                /\ n \notin DOMAIN ind.result
                /\ \A m \in Requested \ {n} :
                      LET alone == CalculateForData(ind.points, <<m>>)
                      IN /\ m \in DOMAIN ind.result <=> m \in DOMAIN alone
                         /\ m \in DOMAIN ind.result => ind.result[m] = alone[m]

C23_Witness ==
    /\ Calculated
    /\ Bars = INDICATOR_MIN_PERIODS["SMA_50"] - 1
    /\ ind.indicators = INDICATOR_SETS["chart_basic"]
    /\ DOMAIN ind.result = {"SMA_20", "VOLUME_SMA_20"}

\* C24: every identifier of the result has exactly one entry per bar of the
\* input series, and the entries' dates are the bars' dates (week_ending for
\* weekly bars) in ascending order.
C24_OneEntryPerBar ==
    Calculated =>
        \A n \in DOMAIN ind.result :
            LET values == ind.result[n]
            IN /\ Len(values) = Bars
               /\ {values[i].date : i \in DOMAIN values}
                    = {PointDate(ind.points[i]) : i \in DOMAIN ind.points}
               /\ \A i \in DOMAIN values :
                      i > 1 => values[i - 1].date < values[i].date

C24_Witness ==
    /\ Calculated
    /\ Bars = MaxSeries
    /\ "week_ending" \in DOMAIN ind.points[1]
    /\ ind.points[1].week_ending > ind.points[2].week_ending
    /\ "MACD" \in DOMAIN ind.result
    /\ ind.result["MACD"][1].values["MACD"] = Null
    /\ ind.result["MACD"][Bars].values["MACD"] # Null

\* the request with every occurrence of one identifier taken out
RequestWithout(n) == SelectSeq(ind.indicators, LAMBDA m : m # n)

\* the computation of the identifier is attempted and fails
Fails(n) ==
    /\ Bars >= MinPeriod(n)
    /\ \/ ComputationError(n) # "none"
       \/ ~KnownIndicator(n)

\* C25: when the computation of a requested identifier raises or the
\* identifier is unknown, the call returns without raising, the identifier is
\* absent from the result, the result is the one of the same request without
\* that identifier, and the result's keys are requested identifiers.
C25_FailureIsolated ==
    Calculated =>
        /\ DOMAIN ind.result \subseteq Requested
        /\ \A n \in Requested :
              Fails(n) /\ Bars > 0 =>
                  /\ ind.raised = "none"
                  /\ n \notin DOMAIN ind.result
                  /\ ind.result = CalculateForData(ind.points, RequestWithout(n))

C25_Witness ==
    /\ Calculated
    /\ ind.indicators = <<"SMA_x", "SMA_20", "OBV">>
    /\ ind.raised = "none"
    /\ DOMAIN ind.result = {"SMA_20", "OBV"}

(***************************************************************************)
(* IndicatorSetManager.get_indicators.  A set name is a text: a sequence   *)
(* of pieces, each an identifier-like word, a comma or a blank; two texts  *)
(* are the same string exactly when they are the same sequence.  The list  *)
(* returned is a list of texts.                                            *)
(***************************************************************************)
MaxPieces == 4

Word(s) == <<s>>
Words(list) == [i \in DOMAIN list |-> Word(list[i])]

\* the identifiers of the predefined sets in the order of Python's str "<"
StringOrder ==
    <<"ADX_14", "ATR_14", "BB_20", "CMF_20", "EMA_12", "EMA_26", "MACD",
      "OBV", "RSI_14", "SMA_20", "SMA_200", "SMA_50", "STOCH",
      "VOLUME_SMA_20">>

\* sorted(list(all_indicators))
SortedNames(S) == SelectSeq(StringOrder, LAMBDA n : n \in S)

\* all_indicators after the update with every set's list
AllIndicators ==
    UNION {{INDICATOR_SETS[k][i] : i \in DOMAIN INDICATOR_SETS[k]} :
              k \in DOMAIN INDICATOR_SETS}

\* set_name.split(","): the pieces between the commas, empty ones included
RECURSIVE SplitCommas(_, _)
SplitCommas(text, token) ==
    IF text = <<>> THEN <<token>>
    ELSE IF Head(text) = "," THEN <<token>> \o SplitCommas(Tail(text), <<>>)
    ELSE SplitCommas(Tail(text), Append(token, Head(text)))

\* ind.strip()
RECURSIVE Strip(_)
Strip(text) ==
    IF text = <<>> THEN text
    ELSE IF Head(text) = " " THEN Strip(Tail(text))
    ELSE IF text[Len(text)] = " " THEN Strip(SubSeq(text, 1, Len(text) - 1))
    ELSE text

\* A plausible slip: the tokens are not trimmed
StripNothing(text) == text

TrimToken(text) == Strip(text)

IsSetName(text) == Len(text) = 1 /\ text[1] \in DOMAIN INDICATOR_SETS

GetIndicators(set_name) ==
    IF IsSetName(set_name) THEN Words(INDICATOR_SETS[set_name[1]])
    ELSE IF set_name = Word("all") THEN Words(SortedNames(AllIndicators))
    ELSE IF \E i \in DOMAIN set_name : set_name[i] = ","
         THEN LET tokens == SplitCommas(set_name, <<>>)
              IN [i \in DOMAIN tokens |-> TrimToken(tokens[i])]
    ELSE <<set_name>>

Pieces == {"default", "scan_volume", "all", "RSI_14", ",", " "}

InitSets ==
    /\ ind \in {[set_name |-> text, done |-> FALSE, result |-> <<>>] :
                   text \in SeqsUpTo(Pieces, MaxPieces)}
    /\ aggr = NoResult
    /\ pwb = NoResult
    /\ IdleMerge
    /\ IdleStore

\* IndicatorSetManager.get_indicators(set_name)
ResolveSet ==
    /\ ~ind.done
    /\ ind' = [ind EXCEPT !.done = TRUE,
                          !.result = GetIndicators(ind.set_name)]
    /\ UNCHANGED <<aggr, pwb, mergeVars, pipeVars>>

NextSets == ResolveSet

SpecSets == InitSets /\ [][NextSets]_vars

Rank(n) == CHOOSE i \in DOMAIN StringOrder : StringOrder[i] = n
CommaAt == {i \in DOMAIN ind.set_name : ind.set_name[i] = ","}
\* the piece of the name between its (k-1)-th and k-th comma
TokenAt(k) ==
    LET before == {i \in CommaAt : Cardinality({j \in CommaAt : j <= i}) = k - 1}
        after == {i \in CommaAt : Cardinality({j \in CommaAt : j <= i}) = k}
        from == IF before = {} THEN 1 ELSE (CHOOSE i \in before : TRUE) + 1
        to == IF after = {} THEN Len(ind.set_name)
              ELSE (CHOOSE i \in after : TRUE) - 1
    IN SubSeq(ind.set_name, from, to)
Blanks(text) == \A i \in DOMAIN text : text[i] = " "
\* t is text without its leading and trailing blanks
Trimmed(t, text) ==
    /\ t = <<>> \/ (t[1] # " " /\ t[Len(t)] # " ")
    /\ \E a, b \in 0..Len(text) :
          /\ a + Len(t) + b = Len(text)
          /\ Blanks(SubSeq(text, 1, a))
          /\ t = SubSeq(text, a + 1, a + Len(t))
          /\ Blanks(SubSeq(text, a + Len(t) + 1, Len(text)))

\* C26: get_indicators returns the fixed list of a predefined set key;
\* otherwise for "all" the ascending duplicate-free list of every identifier
\* of any predefined set; otherwise for a name holding a comma its
\* comma-separated tokens, each trimmed, in order; otherwise the list holding
\* the name alone.
C26_ResolutionPrecedence ==
    (ind # NoResult /\ ind.done) =>
        LET name == ind.set_name
            out == ind.result
        IN IF \E k \in DOMAIN INDICATOR_SETS : name = Word(k)
           THEN out = Words(INDICATOR_SETS[name[1]])
           ELSE IF name = Word("all")
           THEN /\ {out[i] : i \in DOMAIN out} = {Word(n) : n \in AllIndicators}
                /\ \A i, j \in DOMAIN out :
                      i < j => Rank(out[i][1]) < Rank(out[j][1])
           ELSE IF CommaAt # {}
           THEN /\ Len(out) = Cardinality(CommaAt) + 1
                /\ \A k \in DOMAIN out : Trimmed(out[k], TokenAt(k))
           ELSE out = <<name>>

C26_Witness ==
    /\ ind # NoResult
    /\ ind.done
    /\ ind.set_name = <<" ", "RSI_14", ",", "all">>
    /\ ind.result = <<Word("RSI_14"), Word("all")>>

(***************************************************************************)
(* GET /data/{symbol} with the indicators parameter and no date range      *)
(***************************************************************************)
\* the names a resolved list holds, as the keys of the indicators map are
RequestedNames(text) ==
    LET requested == GetIndicators(text)
    IN {requested[i][1] : i \in {j \in DOMAIN requested : Len(requested[j]) = 1}}

\* response_data after the indicator filter: a non-empty parameter keeps the
\* requested keys of a non-empty indicators map, the empty string removes the
\* map
ResponseData(file, text) ==
    IF text # <<>>
    THEN IF file.indicators # <<>>
         THEN [file EXCEPT !.indicators =
                   [n \in DOMAIN file.indicators \cap RequestedNames(text) |->
                       file.indicators[n]]]
         ELSE file
    ELSE [f \in DOMAIN file \ {"indicators"} |-> file[f]]

FilterTexts ==
    {<<>>, Word("chart_basic"), Word("scan_momentum"), Word("RSI_14"),
     <<"RSI_14", ",", " ", "SMA_20">>, Word("UNKNOWN")}

\* get_symbol_data(symbol, indicators=text) without date range
GetSymbolDataFiltered ==
    /\ calls < MaxCacheCalls
    /\ \E s \in PipelineSymbols, text \in FilterTexts :
          /\ calls' = calls + 1
          /\ IF cache[DailyKey(s)] # NoEntry
             THEN /\ cache' = cache
                  /\ last' = [op |-> "get_daily_filtered", sym |-> s,
                              how |-> "hit", indicators |-> text,
                              body |-> cache[DailyKey(s)].value]
             ELSE IF daily[s] = NoFile
             THEN /\ cache' = cache
                  /\ last' = [op |-> "get_daily_filtered", sym |-> s,
                              how |-> "404", indicators |-> text, body |-> Null]
             ELSE \E body \in {ResponseData(daily[s], text)} :
                     /\ IF text = <<>> THEN CacheSet(DailyKey(s), body)
                        ELSE cache' = cache
                     /\ last' = [op |-> "get_daily_filtered", sym |-> s,
                                 how |-> "miss", indicators |-> text,
                                 body |-> body]
          /\ UNCHANGED <<mE, mI, m1, m2, aggr, pwb, ind, svc, daily, weekly,
                         catalog, runs>>

FilterResponses ==
    CacheResponses \cup {HistoryWith(LastHistoryDay, "ok", LastHistoryDay, "ok")}

\* download_symbol on a provider that returns the whole history or a short one
DownloadSymbolHistory ==
    /\ calls < MaxCacheCalls
    /\ \E s \in PipelineSymbols, rows \in FilterResponses, fault \in Faults :
        \E r \in {DownloadSymbolRun(World, s, rows, fault)} :
           /\ calls' = calls + 1
           /\ Store(r.w)
           /\ last' = [op |-> "full", sym |-> s, fault |-> fault, rows |-> rows,
                       ok |-> DownloadMultipleResult(r.result),
                       status |-> IF r.result # NoFile THEN "stored" ELSE "none",
                       new_data_points |-> 0, stats |-> StatsOf(NoStats),
                       events |-> r.w.events,
                       prev |-> daily[s]]
           /\ UNCHANGED <<mE, mI, m1, m2, aggr, pwb, ind, svc, runs>>

NextFiltered ==
    \/ DownloadSymbolHistory
    \/ GetSymbolData
    \/ GetSymbolDataFiltered

SpecFiltered == Init /\ [][NextFiltered]_vars

FilteredRead ==
    /\ last # NoRun
    /\ last.op = "get_daily_filtered"
    /\ last.how # "404"
    /\ last.indicators # <<>>

RaceSymbol == "A"

InitRace ==
    /\ IdleMerge
    /\ IdleWeek
    /\ daily = [s \in Symbols |-> NoFile]
    /\ weekly = [s \in Symbols |-> NoFile]
    /\ catalog = <<>>
    /\ cache = [k \in CacheKeySet |-> NoEntry]
    /\ svc = Connected
    /\ last = NoRun
    /\ runs = [download |-> NoRun, read |-> NoRun]
    /\ calls = 0

RaceIdle == runs.download = NoRun /\ runs.read = NoRun

\* download_symbol, completed before the interleaved request and download
EarlierDownload ==
    /\ calls = 0
    /\ RaceIdle
    /\ \E rows \in {<<RawRow(LastHistoryDay, "ok")>>, ShortHistory("ok")} :
          Store(DownloadSymbolRun(World, RaceSymbol, rows, "none").w)
    /\ calls' = 1
    /\ UNCHANGED <<mE, mI, m1, m2, aggr, pwb, ind, svc, last, runs>>

\* get_symbol_data, completed before the interleaved request and download
EarlierRead ==
    /\ calls = 1
    /\ RaceIdle
    /\ CacheSet(DailyKey(RaceSymbol), daily[RaceSymbol])
    /\ Served("get_daily", RaceSymbol, "miss", daily[RaceSymbol])
    /\ calls' = 2
    /\ UNCHANGED <<mE, mI, m1, m2, aggr, pwb, ind, svc, daily, weekly, catalog,
                   runs>>

\* download_symbol up to and including upload_json of the daily file
DownloadPut ==
    /\ runs.download = NoRun
    /\ \E rows \in ConcResponses :
          LET conv == ConvertDataframeToPoints(rows)
              points == SortedByDate(conv.points)
              file == StockDataFile(RaceSymbol, points, FileIndicators(points))
          IN IF rows = <<>> \/ conv.raised
             THEN /\ runs' = [runs EXCEPT !.download = [op |-> "full", pc |-> "done"]]
                  /\ daily' = daily
             ELSE /\ runs' = [runs EXCEPT !.download =
                                 [op |-> "full", pc |-> "invalidate", file |-> file]]
                  /\ daily' = [daily EXCEPT ![RaceSymbol] = file]
    /\ UNCHANGED <<mE, mI, m1, m2, aggr, pwb, ind, svc, weekly, catalog, cache,
                   last, calls>>

\* download_symbol after the put: weekly file, catalog, cache.delete
DownloadInvalidate ==
    /\ runs.download # NoRun
    /\ runs.download.pc = "invalidate"
    /\ Store(AfterDailyPut(World, RaceSymbol, runs.download.file, "none"))
    /\ runs' = [runs EXCEPT !.download = [op |-> "full", pc |-> "done"]]
    /\ UNCHANGED <<mE, mI, m1, m2, aggr, pwb, ind, svc, last, calls>>

\* get_symbol_data: cache.get_json of the daily key
ReadCacheGet ==
    /\ runs.read = NoRun
    /\ IF cache[DailyKey(RaceSymbol)] # NoEntry
       THEN /\ runs' = [runs EXCEPT !.read = [op |-> "get_daily", pc |-> "done"]]
            /\ Served("get_daily", RaceSymbol, "hit", cache[DailyKey(RaceSymbol)].value)
       ELSE /\ runs' = [runs EXCEPT !.read = [op |-> "get_daily", pc |-> "blob_read"]]
            /\ last' = last
    /\ UNCHANGED <<mE, mI, m1, m2, aggr, pwb, ind, svc, calls>>
    /\ UNCHANGED storeVars

\* get_symbol_data: downloader.get_symbol_data reads the daily blob
ReadBlob ==
    /\ runs.read # NoRun
    /\ runs.read.pc = "blob_read"
    /\ IF daily[RaceSymbol] = NoFile
       THEN /\ runs' = [runs EXCEPT !.read = [op |-> "get_daily", pc |-> "done"]]
            /\ Served("get_daily", RaceSymbol, "404", Null)
       ELSE /\ runs' = [runs EXCEPT !.read =
                           [op |-> "get_daily", pc |-> "cache_set",
                            body |-> daily[RaceSymbol]]]
            /\ last' = last
    /\ UNCHANGED <<mE, mI, m1, m2, aggr, pwb, ind, svc, calls>>
    /\ UNCHANGED storeVars

\* get_symbol_data: cache.set_json of the body it built, then the response
ReadCacheSet ==
    /\ runs.read # NoRun
    /\ runs.read.pc = "cache_set"
    /\ CacheSet(DailyKey(RaceSymbol), runs.read.body)
    /\ Served("get_daily", RaceSymbol, "miss", runs.read.body)
    /\ runs' = [runs EXCEPT !.read = [op |-> "get_daily", pc |-> "done"]]
    /\ UNCHANGED <<mE, mI, m1, m2, aggr, pwb, ind, svc, daily, weekly, catalog,
                   calls>>

NextRace ==
    \/ EarlierDownload
    \/ EarlierRead
    \/ DownloadPut
    \/ DownloadInvalidate
    \/ ReadCacheGet
    \/ ReadBlob
    \/ ReadCacheSet

SpecRace == InitRace /\ [][NextRace]_vars

RaceOver ==
    /\ runs.download # NoRun /\ runs.download.pc = "done"
    /\ runs.read # NoRun /\ runs.read.pc = "done"

CatalogFaults == {"none", "catalog_get", "catalog_put"}

DownloadOf(symbols, faults) ==
    /\ calls < MaxCacheCalls
    /\ \E s \in symbols, rows \in CacheResponses, fault \in faults :
        \E r \in {DownloadSymbolRun(World, s, rows, fault)} :
           /\ calls' = calls + 1
           /\ Store(r.w)
           /\ last' = [op |-> "full", sym |-> s, fault |-> fault, rows |-> rows,
                       ok |-> DownloadMultipleResult(r.result),
                       events |-> r.w.events,
                       prev |-> daily[s], prev_catalog |-> catalog]
           /\ UNCHANGED <<mE, mI, m1, m2, aggr, pwb, ind, svc, runs>>

DownloadWithCatalogFault == DownloadOf(Symbols, CatalogFaults)

NextCatalogFault == DownloadWithCatalogFault

SpecCatalogFault == Init /\ [][NextCatalogFault]_vars

EntriesOf(cat, s) == SelectSeq(cat, LAMBDA e : e.symbol = s)

DeleteFaults == {"none", "daily_delete", "weekly_delete"}

DeleteSymbolRun(w, s, fault) ==
    LET daily_deleted == w.daily[s] # NoFile /\ fault # "daily_delete"
        weekly_deleted == w.weekly[s] # NoFile /\ fault # "weekly_delete"
        w1 == IF daily_deleted
              THEN Log([w EXCEPT !.daily[s] = NoFile], "daily_delete") ELSE w
        w2 == IF weekly_deleted
              THEN Log([w1 EXCEPT !.weekly[s] = NoFile], "weekly_delete") ELSE w1
        w3 == CacheDelete(w2, DailyKey(s), "cache_del:daily")
        w4 == CacheDelete(w3, WeeklyKey(s), "cache_del:weekly")
        w5 == CacheDelete(w4, LatestKey(s), "cache_del:latest")
    IN [w |-> CacheDelete(w5, SymbolListKey, "cache_del:symbols"),
        daily_deleted |-> daily_deleted, weekly_deleted |-> weekly_deleted]

DeleteSymbol ==
    /\ calls < MaxCacheCalls
    /\ \E s \in Symbols, fault \in DeleteFaults :
        \E r \in {DeleteSymbolRun(World, s, fault)} :
           /\ calls' = calls + 1
           /\ Store(r.w)
           /\ last' = [op |-> "delete", sym |-> s, fault |-> fault,
                       daily_deleted |-> r.daily_deleted,
                       weekly_deleted |-> r.weekly_deleted,
                       events |-> r.w.events, prev |-> daily[s],
                       prev_catalog |-> catalog]
           /\ UNCHANGED <<mE, mI, m1, m2, aggr, pwb, ind, svc, runs>>

\* download_symbol in which every blob operation succeeds
DownloadCompleted == DownloadOf(Symbols, {"none"})

NextDelete ==
    \/ DownloadCompleted
    \/ DeleteSymbol

SpecDelete == Init /\ [][NextDelete]_vars

CatalogSymbols == {catalog[i].symbol : i \in DOMAIN catalog}

============================================================================
